---- MODULE Spec2Model ----
(***************************************************************************)
(* Trim & crop editing engine of the clip maker frontend:                  *)
(*   - VideoTrimmer (host state, crop geometry, native <video> backend),   *)
(*   - TimelineBar (timeline drag state machine),                          *)
(*   - TrimControls (manual time entry, reset buttons),                    *)
(*   - useYouTubePlayer (embedded backend controller).                     *)
(* Times are integers in milliseconds; pixel quantities are integers in    *)
(* units of 1/SubPx pixel, so that every division of the crop geometry is  *)
(* exact.                                                                  *)
(***************************************************************************)
EXTENDS Integers, Sequences, FiniteSets, TLC

(* ------------------------------ bounds --------------------------------- *)
MaxDurationSec == 2
MaxMounts == 3
MaxTimers == 2
MaxLoopFires == 2
MaxDim == 8

(* ------------------------- program constants --------------------------- *)
MsPerSec == 1000
MinGap == 1 * MsPerSec
MaxVolume == 100

HalfSec == MsPerSec \div 2
SubPx == 2 * 9 * 16 * 5

Durations == {d * HalfSec : d \in 2..(2 * MaxDurationSec)}
SourceDims == {<<1920, 1080>>, <<1080, 1920>>}
SourceTypes == {"youtube", "upload"}
VideoIds == {"a", "b"}
Volumes == {0, MaxVolume}
PointerCoords == {0, 4000}
DisplayScales == {1, 2}
AspectRatios == {"original", "9:16", "16:9", "1:1", "4:5", "custom"}
Handles == {"start", "end", "playhead"}
PlayerStates == {"UNSTARTED", "ENDED", "PLAYING", "PAUSED", "BUFFERING", "CUED"}

Null == [null |-> TRUE]

\* the values of App that are only tested for null: the metadata of the
\* submitted video (its fields are the variables of metaVars) and the URL
Metadata == [video |-> "metadata"]
Url == [url |-> "url"]

Max(a, b) == IF a >= b THEN a ELSE b
Min(a, b) == IF a <= b THEN a ELSE b

VARIABLES
  duration, srcW, srcH, sourceType,
  trimmerMounted,
  startTime, endTime, currentTime,
  aspectRatio, cropConfig, isDraggingCrop, dragStart,
  isMuted, volume, isUploadPlaying,
  dragging,
  video, pendingEvents,
  apiLoadPromise, windowYT, scriptLoads,
  videoId, playerRef, timeUpdateIntervalRef,
  isReady, isPlaying, hookCurrentTime,
  mounts, players, timers,
  loopFires,
  confirmedSettings,
  \* App: the state of the page around the trimmer; request is the call of
  \* the API that an async handler awaits
  viewMode, jobId, status, pendingUrl, videoMetadata, loading, request

metaVars == <<duration, srcW, srcH, sourceType>>
boundVars == <<startTime, endTime>>
cropVars == <<aspectRatio, cropConfig, isDraggingCrop, dragStart>>
soundVars == <<isMuted, volume>>
localVars == <<video, pendingEvents, isUploadPlaying>>
loadVars == <<apiLoadPromise, windowYT, scriptLoads>>
hookVars == <<videoId, playerRef, timeUpdateIntervalRef, isReady, isPlaying, hookCurrentTime>>
ytVars == <<mounts, players, timers>>
appVars == <<viewMode, jobId, status, pendingUrl, videoMetadata, loading, request>>
vars == <<duration, srcW, srcH, sourceType, trimmerMounted, startTime, endTime, currentTime,
          aspectRatio, cropConfig, isDraggingCrop, dragStart, isMuted, volume, isUploadPlaying,
          dragging, video, pendingEvents, apiLoadPromise, windowYT, scriptLoads,
          videoId, playerRef, timeUpdateIntervalRef, isReady, isPlaying, hookCurrentTime,
          mounts, players, timers, loopFires, confirmedSettings,
          viewMode, jobId, status, pendingUrl, videoMetadata, loading, request>>

isYouTube == sourceType = "youtube"

(* ------------------------------ TimeCodec ------------------------------ *)
(* A number of the program is either NaN or a finite value in ms.          *)
Num(v) == [nan |-> FALSE, v |-> v]
NaN == [nan |-> TRUE, v |-> 0]
Plus(a, b) == IF a.nan \/ b.nan THEN NaN ELSE Num(a.v + b.v)
Times(a, k) == IF a.nan THEN NaN ELSE Num(a.v * k)

(* A segment of a time text: empty, a numeric literal (its value in        *)
(* thousandths) or a text that is not a number.                            *)
EmptySeg == [kind |-> "empty", val |-> 0]
NonNumSeg == [kind |-> "nonnum", val |-> 0]
NumSeg(v) == [kind |-> "num", val |-> v]
\* a numeric literal followed by other characters, as in "1x"
PrefixSeg(v) == [kind |-> "prefix", val |-> v]

\* parseFloat(part || '0'): parseFloat reads the longest numeric prefix
ParseFloatOrZero(seg) ==
  IF seg.kind = "empty" THEN Num(0)
  ELSE IF seg.kind = "nonnum" THEN NaN
  ELSE Num(seg.val)

parseTimeInput(parts) ==
  LET hours == IF Len(parts) = 3 THEN ParseFloatOrZero(parts[1]) ELSE Num(0)
      minutes == IF Len(parts) = 3 THEN ParseFloatOrZero(parts[2])
                 ELSE IF Len(parts) = 2 THEN ParseFloatOrZero(parts[1])
                 ELSE Num(0)
      seconds == IF Len(parts) = 3 THEN ParseFloatOrZero(parts[3])
                 ELSE IF Len(parts) = 2 THEN ParseFloatOrZero(parts[2])
                 ELSE ParseFloatOrZero(parts[1])
  IN Plus(Plus(Times(hours, 3600), Times(minutes, 60)), seconds)

(* The texts typed into the two time inputs.                               *)
EntrySegs == {EmptySeg, NonNumSeg} \cup
             {NumSeg(t * HalfSec) : t \in (-1)..(2 * MaxDurationSec + 1)}
EntryTexts == {<<s>> : s \in EntrySegs} \cup
              {<<m, s>> : m \in {EmptySeg, NonNumSeg, NumSeg(MsPerSec)},
                          s \in {EmptySeg, NumSeg(0), NumSeg(HalfSec)}}

(* The number a time of k ms is held as: the double nearest to k/1000,     *)
(* which is k/1000 - DoubleErr(k) / (1000 * 2^DoubleExp(k)).               *)
RECURSIVE Pow2(_)
Pow2(n) == IF n = 0 THEN 1 ELSE 2 * Pow2(n - 1)
RECURSIVE Pow2Mod1000(_)
Pow2Mod1000(n) == IF n = 0 THEN 1 ELSE (2 * Pow2Mod1000(n - 1)) % 1000
RECURSIVE Log2Floor(_)
Log2Floor(n) == IF n < 2 THEN 0 ELSE 1 + Log2Floor(n \div 2)

\* the exponent e of the binade [2^e, 2^(e+1)) of k/1000, for k >= 1
Binade(k) ==
  IF k >= 1000 THEN Log2Floor(k \div 1000)
  ELSE -(CHOOSE n \in 1..10 : k * Pow2(n) >= 1000 /\ k * Pow2(n - 1) < 1000)

\* the doubles of that binade are the multiples of 2^-DoubleExp(k)
DoubleExp(k) == IF k = 0 THEN 52 ELSE 52 - Binade(k)
DoubleErr(k) ==
  LET m == ((k % 1000) * Pow2Mod1000(DoubleExp(k))) % 1000
  IN IF m <= 500 THEN m ELSE m - 1000

\* the exponent of the binade that ends at the integer j, for j >= 1
BinadeBelow(j) == IF Pow2(Log2Floor(j)) = j THEN Log2Floor(j) - 1 ELSE Log2Floor(j)

\* Math.floor((seconds % 1) * 1000): the remainder is exact, the product
\* j - DoubleErr / 2^DoubleExp is rounded to the nearest double, which is j
\* or a double below j
msDigit(k) ==
  LET j == k % 1000
      shift == BinadeBelow(j) - Binade(k) - 1
  IN IF j = 0 \/ DoubleErr(k) <= 0 THEN j
     ELSE IF shift >= 0 /\ DoubleErr(k) <= Pow2(shift) THEN j
     ELSE j - 1

\* n.toString() and s.padStart(len, '0'), as sequences of decimal digits
RECURSIVE ToDigits(_)
ToDigits(n) == IF n < 10 THEN <<n>> ELSE Append(ToDigits(n \div 10), n % 10)
RECURSIVE padStart(_, _)
padStart(digits, len) == IF Len(digits) >= len THEN digits ELSE padStart(<<0>> \o digits, len)

\* the segment that the characters "<whole>" or "<whole>.<frac>" are
RECURSIVE DigitsValue(_)
DigitsValue(digits) ==
  IF digits = <<>> THEN 0
  ELSE 10 * DigitsValue(SubSeq(digits, 1, Len(digits) - 1)) + digits[Len(digits)]
FracThousandths(frac) == DigitsValue(SubSeq(frac \o <<0, 0, 0>>, 1, 3))
DecimalSeg(whole, frac) == NumSeg(DigitsValue(whole) * 1000 + FracThousandths(frac))

\* formatTimeInput of TrimControls: the segments of its text, for a time
\* of k ms
formatTimeInput(k) ==
  LET hrs == k \div 3600000
      mins == (k % 3600000) \div 60000
      secs == (k % 60000) \div 1000
      ms == msDigit(k)
      last == DecimalSeg(padStart(ToDigits(secs), 2), padStart(ToDigits(ms), 3))
  IN IF hrs > 0
     THEN <<DecimalSeg(ToDigits(hrs), <<>>), DecimalSeg(padStart(ToDigits(mins), 2), <<>>), last>>
     ELSE <<DecimalSeg(ToDigits(mins), <<>>), last>>

\* formatTime of TimelineBar
formatTime(k) ==
  LET hrs == k \div 3600000
      mins == (k % 3600000) \div 60000
      secs == (k % 60000) \div 1000
      last == DecimalSeg(padStart(ToDigits(secs), 2), <<>>)
  IN IF hrs > 0
     THEN <<DecimalSeg(ToDigits(hrs), <<>>), DecimalSeg(padStart(ToDigits(mins), 2), <<>>), last>>
     ELSE <<DecimalSeg(ToDigits(mins), <<>>), last>>

(* The texts of the time codec: the times below one minute are typed as a  *)
(* number of seconds with three decimals, the longer ones as whole seconds *)
(* in the forms M:SS and H:MM:SS; then texts of four segments, with an     *)
(* empty segment, with a numeric prefix, and texts that are no number.     *)
CodecDuration == 36000 * MsPerSec
CodecSeconds == {0, 1, 2, 3, 4, 7, 8, 16, 32, 59}
CodecMillis == {0, 1, 4, 5, 7, 250, 500, 750, 998, 999}
CodecTexts ==
  {<<NumSeg(sec * MsPerSec + ms)>> : sec \in CodecSeconds, ms \in CodecMillis}
  \cup {<<NumSeg(m * MsPerSec), NumSeg(sec * MsPerSec)>> : m \in {1, 59}, sec \in {0, 1, 59}}
  \cup {<<NumSeg(h * MsPerSec), NumSeg(m * MsPerSec), NumSeg(sec * MsPerSec)>> :
          h \in {1, 9}, m \in {0, 1, 59}, sec \in {0, 1, 59}}
  \cup {<<NumSeg(0), NumSeg(0), NumSeg(0), NumSeg(5 * MsPerSec)>>,
        <<EmptySeg, NumSeg(5 * MsPerSec)>>,
        <<PrefixSeg(MsPerSec)>>,
        <<NumSeg(MsPerSec), PrefixSeg(2 * MsPerSec)>>,
        <<NonNumSeg>>,
        <<NumSeg(MsPerSec), NonNumSeg>>,
        <<NonNumSeg, NumSeg(MsPerSec), NumSeg(MsPerSec)>>}

(* --------------------------- CropGeometryEngine ------------------------ *)
\* as RatioPair, with a square as the fallback of an unknown ratio
RatioPairSquareFallback(ratio, videoWidth, videoHeight) ==
  CASE ratio = "9:16" -> <<9, 16>>
    [] ratio = "16:9" -> <<16, 9>>
    [] ratio = "1:1" -> <<1, 1>>
    [] ratio = "4:5" -> <<4, 5>>
    [] OTHER -> <<1, 1>>

\* ratios[ratio] || [videoWidth, videoHeight]
RatioPair(ratio, videoWidth, videoHeight) ==
  CASE ratio = "9:16" -> <<9, 16>>
    [] ratio = "16:9" -> <<16, 9>>
    [] ratio = "1:1" -> <<1, 1>>
    [] ratio = "4:5" -> <<4, 5>>
    [] OTHER -> <<videoWidth, videoHeight>>

\* as widthLimited, with the comparison turned around
widthLimitedInverted(rw, rh, videoWidth, videoHeight) == rw * videoHeight < videoWidth * rh

\* targetRatio > currentRatio, for targetRatio = rw / rh and
\* currentRatio = videoWidth / videoHeight
widthLimited(rw, rh, videoWidth, videoHeight) == rw * videoHeight > videoWidth * rh

\* videoWidth, videoHeight in pixels; the rectangle in 1/SubPx pixels. The
\* quotients are exact: rw and rh of a named ratio divide SubPx, and the
\* fallback pair of an unknown ratio is never width-limited.
calculateCropForRatio(ratio, videoWidth, videoHeight) ==
  IF ratio = "original" THEN Null
  ELSE
    LET rw == RatioPair(ratio, videoWidth, videoHeight)[1]
        rh == RatioPair(ratio, videoWidth, videoHeight)[2]
        cropWidth == IF widthLimited(rw, rh, videoWidth, videoHeight) THEN videoWidth * SubPx
                     ELSE ((videoHeight * SubPx) \div rh) * rw
        cropHeight == IF widthLimited(rw, rh, videoWidth, videoHeight)
                      THEN ((videoWidth * SubPx) \div rw) * rh
                      ELSE videoHeight * SubPx
    IN [x |-> (videoWidth * SubPx - cropWidth) \div 2,
        y |-> (videoHeight * SubPx - cropHeight) \div 2,
        width |-> cropWidth,
        height |-> cropHeight,
        sourceWidth |-> videoWidth * SubPx,
        sourceHeight |-> videoHeight * SubPx]

(* ------------------------------ helpers -------------------------------- *)
\* the smallest id of 1..max that is not in use
FreshId(used, max) == CHOOSE i \in 1..max : i \notin used /\ \A j \in 1..max : j \notin used => i <= j
HasFreshId(used, max) == \E i \in 1..max : i \notin used
EmptyMap == [k \in {} |-> 0]
Without(f, ids) == [k \in DOMAIN f \ ids |-> f[k]]

(* --------------------- useYouTubePlayer: shared script load ------------ *)
\* as loadYouTubeAPI, without `if (apiLoadPromise) return apiLoadPromise`
loadYouTubeAPINoMemo(promise, loaded, loads) ==
  IF loaded THEN <<"resolved", loads>>
  ELSE <<"pending", loads + 1>>

\* as loadYouTubeAPI, with a promise that is still pending not returned
loadYouTubeAPIRetrying(promise, loaded, loads) ==
  IF promise = "resolved" THEN <<promise, loads>>
  ELSE IF loaded THEN <<"resolved", loads>>
  ELSE <<"pending", loads + 1>>

\* loadYouTubeAPI: <<apiLoadPromise, scriptLoads>> after the call
loadYouTubeAPI(promise, loaded, loads) ==
  IF promise # "null" THEN <<promise, loads>>
  ELSE IF loaded THEN <<"resolved", loads>>
  ELSE <<"pending", loads + 1>>

(* --------------------- useYouTubePlayer: effect and cleanup ------------ *)
LiveMounts == {m \in DOMAIN mounts : mounts[m].mounted}

\* the closures that can still run: the live effect, the pending awaits and
\* the handlers of the players; the others are dropped at the next effect
Collect(ms, ps) ==
  [m \in {k \in DOMAIN ms : ms[k].mounted \/ ms[k].pc = "awaiting" \/ \E p \in DOMAIN ps : ps[p].mount = k}
     |-> ms[m]]

\* as CleanupPlayers, with playerRef.current = null but no destroy()
CleanupPlayersNoDestroy(ps, ref) == ps

\* return () => { mounted = false; clearInterval(...); destroy() }
CleanupPlayers(ps, ref) == IF ref # 0 THEN Without(ps, {ref}) ELSE ps
CleanupTimers(ts, ref) == IF ref # 0 THEN Without(ts, {ref}) ELSE ts
CleanupMounts(ms) == [m \in DOMAIN ms |-> [ms[m] EXCEPT !.mounted = FALSE]]

\* useEffect body: mounted = true; initPlayer() runs up to its await
EffectMounts(ms) == (FreshId(DOMAIN ms, MaxMounts) :> [mounted |-> TRUE, pc |-> "awaiting"]) @@ ms

\* new window.YT.Player(containerIdRef.current, ...): container is "here"
\* while the hook instance that owns the mount point exists
NewPlayer(m) == [mount |-> m, container |-> "here", ready |-> FALSE, time |-> 0, playing |-> FALSE,
                 muted |-> FALSE, volume |-> MaxVolume]

(* --------------------- useYouTubePlayer: operations -------------------- *)
Usable == playerRef # 0 /\ isReady

\* as boundsRef, with the bounds of the render that created the player
boundsRefAtCreation == [startTime |-> 0, endTime |-> duration]

\* boundsRef.current = { startTime, endTime }, assigned at every render
boundsRef == [startTime |-> startTime, endTime |-> endTime]

seekTarget(time) ==
  LET lo == IF time < boundsRef.startTime THEN boundsRef.startTime ELSE time
  IN IF lo > boundsRef.endTime THEN boundsRef.endTime ELSE lo

\* seekTo(time) of the hook, with the onTimeUpdate callback of VideoTrimmer
HookSeekTo(time, hostTime) ==
  IF Usable
  THEN /\ players' = [players EXCEPT ![playerRef].time = seekTarget(time)]
       /\ hookCurrentTime' = seekTarget(time)
       /\ currentTime' = IF isYouTube THEN seekTarget(time) ELSE hostTime
  ELSE /\ UNCHANGED <<players, hookCurrentTime>>
       /\ currentTime' = hostTime

\* as clampToBounds, with the requested time passed on as it is
clampToBoundsOmitted(time) == time

\* Math.max(startTime, Math.min(endTime, time)), at every call of onSeek
\* and of handleSeek
clampToBounds(time) == Max(startTime, Min(endTime, time))

\* handleSeek of VideoTrimmer
HandleSeek(time) ==
  IF isYouTube
  THEN /\ HookSeekTo(time, time)
       /\ UNCHANGED <<video, pendingEvents>>
  ELSE /\ currentTime' = time
       /\ video' = [video EXCEPT !.currentTime = time]
       /\ pendingEvents' = pendingEvents \cup {"timeupdate", "seeked"}
       /\ UNCHANGED <<players, hookCurrentTime>>

PlayerPlay(ps, p, start, end) ==
  LET current == ps[p].time
      outside == current < start \/ current >= end
  IN [ps EXCEPT ![p].time = IF outside THEN start ELSE current, ![p].playing = TRUE]

(* ------------------------------- Init ---------------------------------- *)
InitVideo == [currentTime |-> 0, paused |-> TRUE, muted |-> FALSE, volume |-> MaxVolume]

\* the state of VideoTrimmer and of its hook after the first render
HostState ==
  /\ sourceType \in SourceTypes
  /\ trimmerMounted = TRUE
  /\ startTime = 0
  /\ endTime = duration
  /\ currentTime = 0
  /\ aspectRatio = "original"
  /\ cropConfig = Null
  /\ isDraggingCrop = FALSE
  /\ dragStart = Null
  /\ isMuted = FALSE
  /\ volume = MaxVolume
  /\ isUploadPlaying = FALSE
  /\ dragging = "null"
  /\ video = InitVideo
  /\ pendingEvents = {}
  /\ windowYT = FALSE
  /\ apiLoadPromise = loadYouTubeAPI("null", FALSE, 0)[1]
  /\ scriptLoads = loadYouTubeAPI("null", FALSE, 0)[2]
  /\ videoId = "a"
  /\ playerRef = 0
  /\ timeUpdateIntervalRef = 0
  /\ isReady = FALSE
  /\ isPlaying = FALSE
  /\ hookCurrentTime = 0
  /\ mounts = EffectMounts(EmptyMap)
  /\ players = EmptyMap
  /\ timers = EmptyMap
  /\ loopFires = 0
  /\ confirmedSettings = Null
  /\ viewMode = "trimming"
  /\ jobId = (IF isYouTube THEN 0 ELSE 1)
  /\ status = Null
  /\ pendingUrl = (IF isYouTube THEN Url ELSE Null)
  /\ videoMetadata = Metadata
  /\ loading = FALSE
  /\ request = "none"

HostInit == duration \in Durations /\ HostState

Init ==
  /\ HostInit
  /\ \E d \in SourceDims : srcW = d[1] /\ srcH = d[2]

(* ============================ TimelineBar ============================== *)
\* the track is TrackWidth pixels wide and starts at clientX = 0
TrackWidth == duration \div HalfSec
TrackXs == (-1)..(TrackWidth + 1)

\* as getTimeFromPosition, with the percentage left as computed
getTimeFromPositionUnclamped(clientX) == (clientX * 100 * duration) \div (100 * TrackWidth)

getTimeFromPosition(clientX) ==
  LET percentTimesWidth == Max(0, Min(100 * TrackWidth, clientX * 100))
  IN (percentTimesWidth * duration) \div (100 * TrackWidth)

\* the window listeners of the drag effect exist while dragging is set
TimelineListening == trimmerMounted /\ dragging # "null"

handleMouseDown(type) ==
  /\ trimmerMounted
  /\ dragging' = type
  /\ UNCHANGED <<metaVars, appVars, confirmedSettings, trimmerMounted, boundVars, currentTime, cropVars, soundVars, localVars,
                 loadVars, hookVars, ytVars, loopFires>>

\* as dragStartValue, without the one second kept before the end
dragStartValueNoGap(time) == Max(0, Min(time, endTime))

\* Math.max(0, Math.min(time, endTime - 1)) and
\* Math.min(duration, Math.max(time, startTime + 1))
dragStartValue(time) == Max(0, Min(time, endTime - MinGap))
dragEndValue(time) == Min(duration, Max(time, startTime + MinGap))

handleMouseMove(clientX) ==
  /\ TimelineListening
  /\ LET time == getTimeFromPosition(clientX)
     IN CASE dragging = "start" ->
               /\ startTime' = dragStartValue(time)
               /\ UNCHANGED <<endTime, currentTime, players, hookCurrentTime, video, pendingEvents>>
          [] dragging = "end" ->
               /\ endTime' = dragEndValue(time)
               /\ UNCHANGED <<startTime, currentTime, players, hookCurrentTime, video, pendingEvents>>
          [] OTHER ->
               /\ HandleSeek(clampToBounds(time))
               /\ UNCHANGED boundVars
  /\ UNCHANGED <<metaVars, appVars, confirmedSettings, trimmerMounted, cropVars, soundVars, isUploadPlaying, dragging, loadVars,
                 videoId, playerRef, timeUpdateIntervalRef, isReady, isPlaying, mounts, timers, loopFires>>

handleTrackClick(clientX) ==
  /\ trimmerMounted
  /\ dragging = "null"
  /\ HandleSeek(clampToBounds(getTimeFromPosition(clientX)))
  /\ UNCHANGED <<metaVars, appVars, confirmedSettings, trimmerMounted, boundVars, cropVars, soundVars, isUploadPlaying, dragging, loadVars,
                 videoId, playerRef, timeUpdateIntervalRef, isReady, isPlaying, mounts, timers, loopFires>>

(* ============================ TrimControls ============================= *)
\* as startEntryAccepted, with every parse result taken as a number
startEntryAcceptedUnparsed(time) == time.v >= 0 /\ time.v < endTime

\* !isNaN(time) && time >= 0 && time < endTime, and the same for the end
startEntryAccepted(time) == ~time.nan /\ time.v >= 0 /\ time.v < endTime
endEntryAccepted(time) == ~time.nan /\ time.v > startTime /\ time.v <= duration

StartInputChange(text) ==
  /\ trimmerMounted
  /\ LET time == parseTimeInput(text)
     IN startTime' = IF startEntryAccepted(time) THEN time.v ELSE startTime
  /\ UNCHANGED <<metaVars, appVars, confirmedSettings, trimmerMounted, endTime, currentTime, cropVars, soundVars, localVars, dragging,
                 loadVars, hookVars, ytVars, loopFires>>

EndInputChange(text) ==
  /\ trimmerMounted
  /\ LET time == parseTimeInput(text)
     IN endTime' = IF endEntryAccepted(time) THEN time.v ELSE endTime
  /\ UNCHANGED <<metaVars, appVars, confirmedSettings, trimmerMounted, startTime, currentTime, cropVars, soundVars, localVars, dragging,
                 loadVars, hookVars, ytVars, loopFires>>

ResetStart ==
  /\ trimmerMounted
  /\ startTime' = 0
  /\ UNCHANGED <<metaVars, appVars, confirmedSettings, trimmerMounted, endTime, currentTime, cropVars, soundVars, localVars, dragging,
                 loadVars, hookVars, ytVars, loopFires>>

ResetEnd ==
  /\ trimmerMounted
  /\ endTime' = duration
  /\ UNCHANGED <<metaVars, appVars, confirmedSettings, trimmerMounted, startTime, currentTime, cropVars, soundVars, localVars, dragging,
                 loadVars, hookVars, ytVars, loopFires>>

(* ===================== VideoTrimmer: crop and aspect ratio ============= *)
\* the buttons of AspectRatioSelector
ASPECT_RATIOS == {"original", "9:16", "16:9", "1:1", "4:5"}

\* setAspectRatio, then the effect that recomputes the crop
\* as aspectEffect, with the effect held back while the crop box is dragged
aspectEffectSkippedInDrag(ratio) ==
  IF ratio = aspectRatio \/ isDraggingCrop THEN cropConfig
  ELSE calculateCropForRatio(ratio, srcW, srcH)

\* the crop after the effect on [aspectRatio, metadata.width, metadata.height]:
\* it runs when the selected ratio differs from the one of the last render
aspectEffect(ratio) ==
  IF ratio = aspectRatio THEN cropConfig
  ELSE calculateCropForRatio(ratio, srcW, srcH)

SelectAspectRatio(ratio) ==
  /\ trimmerMounted
  /\ aspectRatio' = ratio
  /\ cropConfig' = aspectEffect(ratio)
  /\ UNCHANGED <<metaVars, appVars, confirmedSettings, trimmerMounted, boundVars, currentTime, isDraggingCrop, dragStart, soundVars,
                 localVars, dragging, loadVars, hookVars, ytVars, loopFires>>

\* the document listeners of the crop drag effect
CropListening == trimmerMounted /\ isDraggingCrop /\ dragStart # Null /\ cropConfig # Null

handleCropDragStart(clientX, clientY) ==
  /\ trimmerMounted
  /\ cropConfig # Null
  /\ isDraggingCrop' = TRUE
  /\ dragStart' = [x |-> clientX, y |-> clientY, cropX |-> cropConfig.x, cropY |-> cropConfig.y]
  /\ UNCHANGED <<metaVars, appVars, confirmedSettings, trimmerMounted, boundVars, currentTime, aspectRatio, cropConfig, soundVars,
                 localVars, dragging, loadVars, hookVars, ytVars, loopFires>>

\* as clampCropX, without the upper limit
clampCropXNoUpper(newX) == Max(0, newX)

\* Math.max(0, Math.min(metadata.width - cropConfig.width, newX)), and the
\* same for y
clampOrigin(limit, new) == Max(0, Min(limit, new))
clampCropX(newX) == clampOrigin(srcW * SubPx - cropConfig.width, newX)
clampCropY(newY) == clampOrigin(srcH * SubPx - cropConfig.height, newY)

\* as movedOrigin, with the delta of the screen taken as one of the source
movedOriginUnscaled(origin, delta, scale) == origin + delta * SubPx

\* dragStart.cropX + deltaX * scaleX: the origin in 1/SubPx pixels, the
\* delta in pixels of the screen
movedOrigin(origin, delta, scale) == origin + delta * scale * SubPx

\* as draggedCrop, with the rectangle built from the new origin alone
draggedCropWithoutSpread(newX, newY) ==
  [x |-> clampCropX(newX), y |-> clampCropY(newY), width |-> 0, height |-> 0,
   sourceWidth |-> 0, sourceHeight |-> 0]

\* { ...cropConfig, x: newX, y: newY }
draggedCrop(newX, newY) == [cropConfig EXCEPT !.x = clampCropX(newX), !.y = clampCropY(newY)]

\* as dragOrigin, with the origin the crop has at the move
dragOriginCurrent == [x |-> cropConfig.x, y |-> cropConfig.y]

\* dragStart.cropX, dragStart.cropY: the origin the move starts from
dragOrigin == [x |-> dragStart.cropX, y |-> dragStart.cropY]

\* scaleX = metadata.width / rect.width, scaleY = metadata.height / rect.height
handleCropMouseMove(clientX, clientY, scaleX, scaleY) ==
  /\ CropListening
  /\ LET deltaX == clientX - dragStart.x
         deltaY == clientY - dragStart.y
         newX == movedOrigin(dragOrigin.x, deltaX, scaleX)
         newY == movedOrigin(dragOrigin.y, deltaY, scaleY)
     IN cropConfig' = draggedCrop(newX, newY)
  /\ UNCHANGED <<metaVars, appVars, confirmedSettings, trimmerMounted, boundVars, currentTime, aspectRatio, isDraggingCrop, dragStart,
                 soundVars, localVars, dragging, loadVars, hookVars, ytVars, loopFires>>

\* one mouseup event reaches the window listener of TimelineBar and the
\* document listener of the crop drag, whichever are attached
afterMouseUp ==
  [dragging |-> IF TimelineListening THEN "null" ELSE dragging,
   isDraggingCrop |-> IF CropListening THEN FALSE ELSE isDraggingCrop,
   dragStart |-> IF CropListening THEN Null ELSE dragStart]

handleMouseUp ==
  /\ TimelineListening \/ CropListening
  /\ dragging' = afterMouseUp.dragging
  /\ isDraggingCrop' = afterMouseUp.isDraggingCrop
  /\ dragStart' = afterMouseUp.dragStart
  /\ UNCHANGED <<metaVars, appVars, confirmedSettings, trimmerMounted, boundVars, currentTime, aspectRatio, cropConfig, soundVars,
                 localVars, loadVars, hookVars, ytVars, loopFires>>

\* a mouseup over the track that ends a drag of a handle: the window
\* listener runs, then the browser dispatches the click of the gesture,
\* which bubbles from the handle to the onClick of the track (only the
\* mousedown of a handle has its propagation stopped)
handleMouseUpOverTrack(clientX) ==
  /\ TimelineListening
  /\ dragging' = afterMouseUp.dragging
  /\ isDraggingCrop' = afterMouseUp.isDraggingCrop
  /\ dragStart' = afterMouseUp.dragStart
  /\ HandleSeek(clampToBounds(getTimeFromPosition(clientX)))
  /\ UNCHANGED <<metaVars, appVars, confirmedSettings, trimmerMounted, boundVars, aspectRatio, cropConfig, soundVars, isUploadPlaying,
                 loadVars, videoId, playerRef, timeUpdateIntervalRef, isReady, isPlaying, mounts, timers,
                 loopFires>>

(* ------------------------- observer of the loop rule ------------------ *)
(* loopFires counts the firings of the loop rule (pause, then seek to      *)
(* start) since the last explicit play: the first one counted is a         *)
(* crossing of the end bound during playback, every later one counts.      *)
CountFire(wasPaused) ==
  IF loopFires = 0 /\ wasPaused THEN 0 ELSE Min(loopFires + 1, MaxLoopFires)

(* ===================== VideoTrimmer: native <video> backend ============ *)
\* assigning video.currentTime queues the events of a seek
Seek(v, time) == [v EXCEPT !.currentTime = time]
SeekEvents == {"timeupdate", "seeked"}
\* as OutOfRange, with a position at the end bound taken as inside
OutOfRangeEndInside(time) == time < startTime \/ time > endTime

\* currentTime < startTime || currentTime >= endTime
OutOfRange(time) == time < startTime \/ time >= endTime

\* handleTimeUpdate: the video and the queued events after the handler
timeUpdateFires == video.currentTime >= endTime
timeUpdateRewinds == ~timeUpdateFires /\ video.currentTime < startTime /\ ~video.paused

\* one call of a time observation: a setter of React or a command to the player
Call(op, arg) == [op |-> op, arg |-> arg]

\* as handleTimeUpdateCalls, with the seek issued before the pause
handleTimeUpdateCallsSeekFirst ==
  <<Call("setCurrentTime", video.currentTime)>>
  \o (IF timeUpdateFires THEN <<Call("seek", startTime), Call("pause", 0)>> ELSE <<>>)
  \o (IF timeUpdateRewinds THEN <<Call("seek", startTime)>> ELSE <<>>)

\* the calls of one run of handleTimeUpdate, in the order of its statements
handleTimeUpdateCalls ==
  <<Call("setCurrentTime", video.currentTime)>>
  \o (IF timeUpdateFires THEN <<Call("pause", 0), Call("seek", startTime)>> ELSE <<>>)
  \o (IF timeUpdateRewinds THEN <<Call("seek", startTime)>> ELSE <<>>)

\* the value the calls of `op` leave, `old` if there is none
RECURSIVE Published(_, _, _)
Published(calls, op, old) ==
  IF calls = <<>> THEN old
  ELSE Published(Tail(calls), op, IF Head(calls).op = op THEN Head(calls).arg ELSE old)

\* video.pause() and video.currentTime = t, one after the other: the element
\* and the events it queues
RECURSIVE ApplyToVideo(_, _)
ApplyToVideo(calls, el) ==
  IF calls = <<>> THEN el
  ELSE LET c == Head(calls)
           next == CASE c.op = "pause" ->
                          [video |-> [el.video EXCEPT !.paused = TRUE],
                           events |-> el.events \cup (IF el.video.paused THEN {} ELSE {"pause"})]
                     [] c.op = "seek" ->
                          [video |-> Seek(el.video, c.arg), events |-> el.events \cup SeekEvents]
                     [] OTHER -> el
       IN ApplyToVideo(Tail(calls), next)

handleTimeUpdate ==
  LET after == ApplyToVideo(handleTimeUpdateCalls,
                            [video |-> video, events |-> pendingEvents \ {"timeupdate"}])
  IN /\ currentTime' = Published(handleTimeUpdateCalls, "setCurrentTime", currentTime)
     /\ video' = after.video
     /\ pendingEvents' = after.events
     /\ loopFires' = IF timeUpdateFires THEN CountFire(video.paused) ELSE loopFires
     /\ UNCHANGED isUploadPlaying

\* handlePlay of the bounds effect and onPlay of the playing-state effect
handlePlay ==
  /\ video' = IF OutOfRange(video.currentTime) THEN Seek(video, startTime) ELSE video
  /\ pendingEvents' = (pendingEvents \ {"play"})
                      \cup (IF OutOfRange(video.currentTime) THEN SeekEvents ELSE {})
  /\ isUploadPlaying' = TRUE
  /\ UNCHANGED <<currentTime, loopFires>>

handleSeeked ==
  /\ currentTime' = video.currentTime
  /\ pendingEvents' = pendingEvents \ {"seeked"}
  /\ UNCHANGED <<video, isUploadPlaying, loopFires>>

onPause ==
  /\ isUploadPlaying' = FALSE
  /\ pendingEvents' = pendingEvents \ {"pause"}
  /\ UNCHANGED <<video, currentTime, loopFires>>

\* the browser delivers one queued media event to its listeners
VideoEvent(ev) ==
  /\ trimmerMounted
  /\ ~isYouTube
  /\ ev \in pendingEvents
  /\ CASE ev = "timeupdate" -> handleTimeUpdate
       [] ev = "play" -> handlePlay
       [] ev = "seeked" -> handleSeeked
       [] OTHER -> onPause
  /\ UNCHANGED <<metaVars, appVars, confirmedSettings, trimmerMounted, boundVars, cropVars, soundVars, dragging,
                 loadVars, hookVars, ytVars>>

\* playback of the native element moves its position and reports it
VideoAdvance ==
  /\ trimmerMounted
  /\ ~isYouTube
  /\ ~video.paused
  /\ video.currentTime < duration
  /\ video' = [video EXCEPT !.currentTime = @ + HalfSec]
  /\ pendingEvents' = pendingEvents \cup {"timeupdate"}
  /\ UNCHANGED <<metaVars, appVars, confirmedSettings, trimmerMounted, boundVars, currentTime, cropVars, soundVars, isUploadPlaying,
                 dragging, loadVars, hookVars, ytVars, loopFires>>

(* ===================== VideoTrimmer: playback handlers ================= *)
\* play() and pause() of the hook: the players after the call
play(ps) == IF Usable THEN PlayerPlay(ps, playerRef, boundsRef.startTime, boundsRef.endTime) ELSE ps
pause(ps) == IF Usable THEN [ps EXCEPT ![playerRef].playing = FALSE] ELSE ps
togglePlay(ps) == IF isPlaying THEN pause(ps) ELSE play(ps)

toggleMute(ps) ==
  IF Usable THEN [ps EXCEPT ![playerRef].muted = ~ps[playerRef].muted] ELSE ps

setVolume(ps, newVolume) ==
  IF Usable
  THEN [ps EXCEPT ![playerRef].volume = Max(0, Min(MaxVolume, newVolume)),
                  ![playerRef].muted = IF newVolume > 0 THEN FALSE ELSE ps[playerRef].muted]
  ELSE ps

handleTogglePlay ==
  /\ trimmerMounted
  /\ IF isYouTube
     THEN /\ players' = togglePlay(players)
          /\ loopFires' = IF isPlaying THEN loopFires ELSE 0
          /\ UNCHANGED <<video, pendingEvents>>
     ELSE /\ IF video.paused
             THEN /\ video' = [video EXCEPT
                                 !.currentTime = IF OutOfRange(@) THEN startTime ELSE @,
                                 !.paused = FALSE]
                  /\ pendingEvents' = pendingEvents \cup {"play"}
                                      \cup (IF OutOfRange(video.currentTime) THEN SeekEvents ELSE {})
                  /\ loopFires' = 0
             ELSE /\ video' = [video EXCEPT !.paused = TRUE]
                  /\ pendingEvents' = pendingEvents \cup {"pause"}
                  /\ UNCHANGED loopFires
          /\ UNCHANGED players
  /\ UNCHANGED <<metaVars, appVars, confirmedSettings, trimmerMounted, boundVars, currentTime, cropVars, soundVars, isUploadPlaying,
                 dragging, loadVars, hookVars, mounts, timers>>

handleToggleMute ==
  /\ trimmerMounted
  /\ IF isYouTube
     THEN /\ players' = toggleMute(players)
          /\ isMuted' = ~isMuted
          /\ UNCHANGED video
     ELSE /\ video' = [video EXCEPT !.muted = ~video.muted]
          /\ isMuted' = ~video.muted
          /\ UNCHANGED players
  /\ UNCHANGED <<metaVars, appVars, confirmedSettings, trimmerMounted, boundVars, currentTime, cropVars, volume, isUploadPlaying,
                 pendingEvents, dragging, loadVars, hookVars, mounts, timers, loopFires>>

handleVolumeChange(newVolume) ==
  /\ trimmerMounted
  /\ volume' = newVolume
  /\ isMuted' = (newVolume = 0)
  /\ IF isYouTube
     THEN /\ players' = setVolume(players, newVolume)
          /\ UNCHANGED video
     ELSE /\ video' = [video EXCEPT !.volume = newVolume, !.muted = (newVolume = 0)]
          /\ UNCHANGED players
  /\ UNCHANGED <<metaVars, appVars, confirmedSettings, trimmerMounted, boundVars, currentTime, cropVars, isUploadPlaying,
                 pendingEvents, dragging, loadVars, hookVars, mounts, timers, loopFires>>

\* a click at the left or the right end of the progress bar
handleProgressClick(percentage) ==
  /\ trimmerMounted
  /\ LET newTime == startTime + percentage * (endTime - startTime)
     IN HandleSeek(clampToBounds(newTime))
  /\ UNCHANGED <<metaVars, appVars, confirmedSettings, trimmerMounted, boundVars, cropVars, soundVars, isUploadPlaying, dragging, loadVars,
                 videoId, playerRef, timeUpdateIntervalRef, isReady, isPlaying, mounts, timers, loopFires>>

\* as trimCropSettings, with the bounds the trimmer was mounted with
trimCropSettingsInitialBounds == [startTime |-> 0, endTime |-> duration, crop |-> cropConfig]

\* { startTime, endTime, crop: cropConfig }
trimCropSettings == [startTime |-> startTime, endTime |-> endTime, crop |-> cropConfig]

\* the Continue button: confirmedSettings is the argument of the last call
\* of onConfirm; the parent then takes the trimmer off the page
\* (TrimmerUnmount)
handleConfirm ==
  /\ trimmerMounted
  /\ confirmedSettings' = trimCropSettings
  /\ UNCHANGED <<metaVars, appVars, trimmerMounted, boundVars, currentTime, cropVars, soundVars, localVars, dragging,
                 loadVars, hookVars, ytVars, loopFires>>

(* ===================== useYouTubePlayer: lifecycle ===================== *)
\* the script calls window.onYouTubeIframeAPIReady, which resolves the promise
ScriptLoaded ==
  /\ scriptLoads > 0
  /\ ~windowYT
  /\ windowYT' = TRUE
  /\ apiLoadPromise' = "resolved"
  /\ UNCHANGED <<metaVars, appVars, confirmedSettings, trimmerMounted, boundVars, currentTime, cropVars, soundVars, localVars, dragging,
                 scriptLoads, hookVars, ytVars, loopFires>>

\* as initPlayerInstalls, without the check of the liveness flag
initPlayerInstallsUnchecked(m) == TRUE

\* if (!mounted) return, after the await
initPlayerInstalls(m) == mounts[m].mounted

\* initPlayer after `await loadYouTubeAPI()`
InitPlayerResume(m) ==
  /\ m \in DOMAIN mounts
  /\ mounts[m].pc = "awaiting"
  /\ apiLoadPromise = "resolved"
  /\ IF initPlayerInstalls(m)
     THEN LET prior == IF playerRef # 0 THEN Without(players, {playerRef}) ELSE players
              pid == FreshId(DOMAIN prior, MaxMounts)
          IN /\ HasFreshId(DOMAIN prior, MaxMounts)
             /\ players' = (pid :> NewPlayer(m)) @@ prior
             /\ playerRef' = pid
             /\ mounts' = [mounts EXCEPT ![m].pc = "resumed"]
     ELSE /\ mounts' = [mounts EXCEPT ![m].pc = "resumed"]
          /\ UNCHANGED <<players, playerRef>>
  /\ UNCHANGED <<metaVars, appVars, confirmedSettings, trimmerMounted, boundVars, currentTime, cropVars, soundVars, localVars, dragging,
                 loadVars, videoId, timeUpdateIntervalRef, isReady, isPlaying, hookCurrentTime, timers, loopFires>>

\* the effect cleanup followed by the effect body, for a new videoId
IdentityChange(v) ==
  /\ trimmerMounted
  /\ v # videoId
  /\ LET ps == CleanupPlayers(players, playerRef)
         ms == Collect(CleanupMounts(mounts), ps)
     IN /\ HasFreshId(DOMAIN ms, MaxMounts)
        /\ players' = ps
        /\ mounts' = EffectMounts(ms)
  /\ timers' = CleanupTimers(timers, timeUpdateIntervalRef)
  /\ playerRef' = 0
  /\ videoId' = v
  /\ apiLoadPromise' = loadYouTubeAPI(apiLoadPromise, windowYT, scriptLoads)[1]
  /\ scriptLoads' = loadYouTubeAPI(apiLoadPromise, windowYT, scriptLoads)[2]
  /\ UNCHANGED <<metaVars, appVars, confirmedSettings, trimmerMounted, boundVars, currentTime, cropVars, soundVars, localVars, dragging,
                 windowYT, timeUpdateIntervalRef, isReady, isPlaying, hookCurrentTime, loopFires>>

\* VideoTrimmer leaves the page (Back or Continue): every effect is cleaned
\* up, and the state of the component and of its hook is discarded
TrimmerLeaves ==
  /\ trimmerMounted' = FALSE
  /\ players' = [p \in DOMAIN CleanupPlayers(players, playerRef) |-> [players[p] EXCEPT !.container = "gone"]]
  /\ mounts' = Collect(CleanupMounts(mounts), CleanupPlayers(players, playerRef))
  /\ timers' = [t \in DOMAIN CleanupTimers(timers, timeUpdateIntervalRef) |-> [ctrlAlive |-> FALSE]]
  /\ playerRef' = 0
  /\ timeUpdateIntervalRef' = 0
  /\ isReady' = FALSE
  /\ isPlaying' = FALSE
  /\ hookCurrentTime' = 0
  /\ startTime' = 0
  /\ endTime' = duration
  /\ currentTime' = 0
  /\ aspectRatio' = "original"
  /\ cropConfig' = Null
  /\ isDraggingCrop' = FALSE
  /\ dragStart' = Null
  /\ isMuted' = FALSE
  /\ volume' = MaxVolume
  /\ isUploadPlaying' = FALSE
  /\ dragging' = "null"
  /\ video' = InitVideo
  /\ pendingEvents' = {}
  /\ loopFires' = 0
  /\ UNCHANGED <<loadVars, videoId>>

\* the teardown of the trimmer, for the specifications that leave App out
TrimmerUnmount ==
  /\ trimmerMounted
  /\ TrimmerLeaves
  /\ UNCHANGED <<metaVars, appVars, confirmedSettings>>

\* a new VideoTrimmer, with a new instance of the hook, is mounted
TrimmerEnters ==
  /\ HasFreshId(DOMAIN mounts, MaxMounts)
  /\ trimmerMounted' = TRUE
  /\ mounts' = EffectMounts(mounts)
  /\ apiLoadPromise' = loadYouTubeAPI(apiLoadPromise, windowYT, scriptLoads)[1]
  /\ scriptLoads' = loadYouTubeAPI(apiLoadPromise, windowYT, scriptLoads)[2]
  /\ UNCHANGED <<boundVars, currentTime, cropVars, soundVars, localVars, dragging,
                 windowYT, hookVars, players, timers, loopFires>>

\* the setup of the trimmer, for the specifications that leave App out
TrimmerMount ==
  /\ ~trimmerMounted
  /\ TrimmerEnters
  /\ UNCHANGED <<metaVars, appVars, confirmedSettings>>

\* a VideoTrimmer that one render mounts and the next one unmounts: its
\* effects ran, then their cleanups
TrimmerFlashes ==
  /\ HasFreshId(DOMAIN mounts, MaxMounts)
  /\ mounts' = Collect(CleanupMounts(EffectMounts(mounts)), players)
  /\ apiLoadPromise' = loadYouTubeAPI(apiLoadPromise, windowYT, scriptLoads)[1]
  /\ scriptLoads' = loadYouTubeAPI(apiLoadPromise, windowYT, scriptLoads)[2]
  /\ UNCHANGED <<trimmerMounted, boundVars, currentTime, cropVars, soundVars, localVars, dragging,
                 windowYT, hookVars, players, timers, loopFires>>

TrimmerStays ==
  UNCHANGED <<trimmerMounted, boundVars, currentTime, cropVars, soundVars, localVars, dragging,
              loadVars, hookVars, ytVars, loopFires>>

(* ================================= App ================================= *)
JobStatus == {"pending", "downloading", "transcribing", "editing", "rendering", "completed", "failed"}

\* the body of the effect on [status, viewMode]
statusEffect(view, st) ==
  IF st = Null THEN view
  ELSE IF st.status = "completed" THEN "preview"
  ELSE IF st.status = "editing" THEN "editing"
  ELSE IF view # "trimming" /\ view # "upload" THEN "processing"
  ELSE view

\* viewMode after the renders that follow a handler which set it to `view`:
\* the effect runs when status or viewMode changed, and once more when it
\* changed viewMode itself
settledView(view, st, statusChanged) ==
  IF view # viewMode \/ statusChanged
  THEN statusEffect(statusEffect(view, st), st)
  ELSE view

\* what App renders
screen(view, metadata, job, st) ==
  IF view = "trimming" /\ metadata # Null THEN "VideoTrimmer"
  ELSE IF view = "editing" /\ job # 0 THEN "CaptionEditor"
  ELSE IF view = "preview" /\ st # Null /\ job # 0 THEN "VideoPreview"
  ELSE IF view = "processing" /\ st # Null THEN "ProcessingView"
  ELSE "UploadZone"

currentScreen == screen(viewMode, videoMetadata, jobId, status)

\* result.job_id: the id of a job the backend has just created
newJobId == IF jobId = 1 THEN 2 ELSE 1

\* the trimmer is on the page exactly while App renders it; `first` is the
\* screen of the render after the handler, `last` the one after the effect
TrimmerFollows(first, last) ==
  IF trimmerMounted
  THEN IF last = "VideoTrimmer" THEN TrimmerStays ELSE TrimmerLeaves
  ELSE IF last = "VideoTrimmer" THEN TrimmerEnters
  ELSE IF first = "VideoTrimmer" THEN TrimmerFlashes
  ELSE TrimmerStays

\* handleFileUpload and handleUrlSubmit up to their await
handleSubmit(kind) ==
  /\ currentScreen = "UploadZone"
  /\ ~loading
  /\ request = "none"
  /\ loading' = TRUE
  /\ request' = kind
  /\ TrimmerStays
  /\ UNCHANGED <<metaVars, confirmedSettings, viewMode, jobId, status, pendingUrl, videoMetadata>>

\* handleFileUpload after `await uploadVideoForPreview(file)`; the file is
\* the video of the first mount
handleFileUpload(ok) ==
  /\ request = "upload"
  /\ LET view == IF ok THEN "trimming" ELSE "upload"
     IN /\ viewMode' = settledView(view, status, FALSE)
        /\ jobId' = IF ok THEN newJobId ELSE jobId
        /\ videoMetadata' = IF ok THEN Metadata ELSE videoMetadata
        /\ pendingUrl' = IF ok THEN Null ELSE pendingUrl
        /\ sourceType' = IF ok THEN "upload" ELSE sourceType
        /\ TrimmerFollows(screen(view, videoMetadata', jobId', status),
                          screen(viewMode', videoMetadata', jobId', status))
  /\ loading' = FALSE
  /\ request' = "none"
  /\ UNCHANGED <<duration, srcW, srcH, confirmedSettings, status>>

\* handleUrlSubmit after `await extractMetadata(url)`
handleUrlSubmit(ok) ==
  /\ request = "metadata"
  /\ LET view == IF ok THEN "trimming" ELSE "upload"
     IN /\ viewMode' = settledView(view, status, FALSE)
        /\ jobId' = IF ok THEN 0 ELSE jobId
        /\ videoMetadata' = IF ok THEN Metadata ELSE videoMetadata
        /\ pendingUrl' = IF ok THEN Url ELSE pendingUrl
        /\ sourceType' = IF ok THEN "youtube" ELSE sourceType
        /\ TrimmerFollows(screen(view, videoMetadata', jobId', status),
                          screen(viewMode', videoMetadata', jobId', status))
  /\ loading' = FALSE
  /\ request' = "none"
  /\ UNCHANGED <<duration, srcW, srcH, confirmedSettings, status>>

\* the Continue button of the trimmer: handleConfirm calls onConfirm, which
\* is handleTrimConfirm up to its await
handleTrimConfirm ==
  /\ trimmerMounted
  /\ currentScreen = "VideoTrimmer"
  /\ confirmedSettings' = trimCropSettings
  /\ loading' = TRUE
  /\ request' = IF pendingUrl # Null THEN "processUrl"
                ELSE IF jobId # 0 THEN "processUpload"
                ELSE "processNone"
  /\ viewMode' = settledView("processing", status, FALSE)
  /\ TrimmerFollows(screen("processing", videoMetadata, jobId, status),
                    screen(viewMode', videoMetadata, jobId, status))
  /\ UNCHANGED <<metaVars, jobId, status, pendingUrl, videoMetadata>>

\* handleTrimConfirm after its await: the catch and the finally
handleTrimConfirmSettled(ok) ==
  /\ request \in {"processUrl", "processUpload", "processNone"}
  /\ request = "processNone" => ok
  /\ LET view == IF ok THEN viewMode ELSE "upload"
     IN /\ viewMode' = settledView(view, status, FALSE)
        /\ jobId' = IF ok /\ request = "processUrl" THEN newJobId ELSE jobId
        /\ TrimmerFollows(screen(view, Null, jobId', status),
                          screen(viewMode', Null, jobId', status))
  /\ loading' = FALSE
  /\ pendingUrl' = Null
  /\ videoMetadata' = Null
  /\ request' = "none"
  /\ UNCHANGED <<metaVars, confirmedSettings, status>>

\* the Back button of the trimmer
handleTrimCancel ==
  /\ trimmerMounted
  /\ currentScreen = "VideoTrimmer"
  /\ viewMode' = settledView("upload", status, FALSE)
  /\ pendingUrl' = Null
  /\ videoMetadata' = Null
  /\ jobId' = 0
  /\ TrimmerFollows(screen("upload", Null, 0, status), screen(viewMode', Null, 0, status))
  /\ UNCHANGED <<metaVars, confirmedSettings, status, loading, request>>

\* the Process Another button of the preview
handleProcessAnother ==
  /\ currentScreen = "VideoPreview"
  /\ jobId' = 0
  /\ viewMode' = settledView("upload", status, FALSE)
  /\ TrimmerFollows(screen("upload", videoMetadata, 0, status),
                    screen(viewMode', videoMetadata, 0, status))
  /\ UNCHANGED <<metaVars, confirmedSettings, status, pendingUrl, videoMetadata, loading, request>>

\* handleCaptionSave up to its await
handleCaptionSave ==
  /\ currentScreen = "CaptionEditor"
  /\ ~loading
  /\ request = "none"
  /\ loading' = TRUE
  /\ request' = "captions"
  /\ TrimmerStays
  /\ UNCHANGED <<metaVars, confirmedSettings, viewMode, jobId, status, pendingUrl, videoMetadata>>

\* handleCaptionSave after its await
handleCaptionSaveSettled(ok) ==
  /\ request = "captions"
  /\ LET view == IF ok THEN "processing" ELSE viewMode
     IN /\ viewMode' = settledView(view, status, FALSE)
        /\ TrimmerFollows(screen(view, videoMetadata, jobId, status),
                          screen(viewMode', videoMetadata, jobId, status))
  /\ loading' = FALSE
  /\ request' = "none"
  /\ UNCHANGED <<metaVars, confirmedSettings, jobId, status, pendingUrl, videoMetadata>>

\* ws.onmessage of useJobStatusWebSocket: the socket exists while jobId is set
StatusMessage(st) ==
  /\ jobId # 0
  /\ status' = [status |-> st]
  /\ viewMode' = settledView(viewMode, status', TRUE)
  /\ TrimmerFollows(screen(viewMode, videoMetadata, jobId, status'),
                    screen(viewMode', videoMetadata, jobId, status'))
  /\ UNCHANGED <<metaVars, confirmedSettings, jobId, pendingUrl, videoMetadata, loading, request>>

(* ===================== useYouTubePlayer: player events ================= *)
HandlerLive(p) == players[p].mount \in DOMAIN mounts /\ mounts[players[p].mount].mounted

\* events.onReady
PlayerReady(p) ==
  /\ p \in DOMAIN players
  /\ ~players[p].ready
  /\ players' = [players EXCEPT ![p].ready = TRUE,
                                ![p].time = IF HandlerLive(p) THEN boundsRef.startTime ELSE @]
  /\ isReady' = IF HandlerLive(p) THEN TRUE ELSE isReady
  /\ UNCHANGED <<metaVars, appVars, confirmedSettings, trimmerMounted, boundVars, currentTime, cropVars, soundVars, localVars, dragging,
                 loadVars, videoId, playerRef, timeUpdateIntervalRef, isPlaying, hookCurrentTime,
                 mounts, timers, loopFires>>

TimerIdsInUse == DOMAIN timers \cup {timeUpdateIntervalRef}

\* events.onStateChange
PlayerStateChange(p, data) ==
  /\ p \in DOMAIN players
  /\ players[p].ready
  /\ IF ~HandlerLive(p)
     THEN UNCHANGED <<isPlaying, timers, timeUpdateIntervalRef>>
     ELSE /\ isPlaying' = (data = "PLAYING")
          /\ IF data = "PLAYING"
             THEN /\ HasFreshId(TimerIdsInUse, MaxTimers)
                  /\ timeUpdateIntervalRef' = FreshId(TimerIdsInUse, MaxTimers)
                  /\ timers' = (FreshId(TimerIdsInUse, MaxTimers) :> [ctrlAlive |-> TRUE]) @@ timers
             ELSE /\ timers' = CleanupTimers(timers, timeUpdateIntervalRef)
                  /\ timeUpdateIntervalRef' = 0
  /\ UNCHANGED <<metaVars, appVars, confirmedSettings, trimmerMounted, boundVars, currentTime, cropVars, soundVars, localVars, dragging,
                 loadVars, videoId, playerRef, isReady, hookCurrentTime, mounts, players, loopFires>>

\* the calls of one run of the poll callback for the time it read, in the
\* order of its statements; onTimeUpdate is the callback of VideoTrimmer
pollCalls(time) ==
  <<Call("setCurrentTime", time)>>
  \o (IF isYouTube THEN <<Call("onTimeUpdate", time)>> ELSE <<>>)
  \o (IF time >= boundsRef.endTime
      THEN <<Call("pauseVideo", 0), Call("seekTo", boundsRef.startTime)>>
      ELSE <<>>)

\* pauseVideo() and seekTo(t, true), one after the other
RECURSIVE ApplyToPlayer(_, _)
ApplyToPlayer(calls, player) ==
  IF calls = <<>> THEN player
  ELSE LET c == Head(calls)
           next == CASE c.op = "pauseVideo" -> [player EXCEPT !.playing = FALSE]
                     [] c.op = "seekTo" -> [player EXCEPT !.time = c.arg]
                     [] OTHER -> player
       IN ApplyToPlayer(Tail(calls), next)

\* the callback of window.setInterval
Tick(t) ==
  /\ t \in DOMAIN timers
  /\ IF ~timers[t].ctrlAlive \/ playerRef = 0
     THEN UNCHANGED <<hookCurrentTime, currentTime, players, loopFires>>
     ELSE LET time == players[playerRef].time
          IN /\ hookCurrentTime' = Published(pollCalls(time), "setCurrentTime", hookCurrentTime)
             /\ currentTime' = Published(pollCalls(time), "onTimeUpdate", currentTime)
             /\ players' = [players EXCEPT ![playerRef] = ApplyToPlayer(pollCalls(time), @)]
             /\ loopFires' = IF time >= boundsRef.endTime
                             THEN CountFire(~players[playerRef].playing)
                             ELSE loopFires
  /\ UNCHANGED <<metaVars, appVars, confirmedSettings, trimmerMounted, boundVars, cropVars, soundVars, localVars, dragging,
                 loadVars, videoId, playerRef, timeUpdateIntervalRef, isReady, isPlaying, mounts, timers>>

\* playback of the embedded player moves its position
PlayerAdvance(p) ==
  /\ p \in DOMAIN players
  /\ players[p].ready
  /\ players[p].playing
  /\ players[p].time < duration
  /\ players' = [players EXCEPT ![p].time = @ + HalfSec]
  /\ UNCHANGED <<metaVars, appVars, confirmedSettings, trimmerMounted, boundVars, currentTime, cropVars, soundVars, localVars, dragging,
                 loadVars, hookVars, mounts, timers, loopFires>>

(* ============================ specification ============================ *)
Next ==
  \/ \E type \in Handles : handleMouseDown(type)
  \/ \E clientX \in TrackXs : handleMouseMove(clientX)
  \/ \E clientX \in TrackXs : handleTrackClick(clientX)
  \/ \E text \in EntryTexts : StartInputChange(text)
  \/ \E text \in EntryTexts : EndInputChange(text)
  \/ ResetStart
  \/ ResetEnd
  \/ \E ratio \in ASPECT_RATIOS : SelectAspectRatio(ratio)
  \/ \E x \in PointerCoords, y \in PointerCoords : handleCropDragStart(x, y)
  \/ \E x \in PointerCoords, y \in PointerCoords, sx \in DisplayScales, sy \in DisplayScales :
        handleCropMouseMove(x, y, sx, sy)
  \/ handleMouseUp
  \/ \E clientX \in TrackXs : handleMouseUpOverTrack(clientX)
  \/ \E ev \in {"timeupdate", "play", "seeked", "pause"} : VideoEvent(ev)
  \/ VideoAdvance
  \/ handleTogglePlay
  \/ handleToggleMute
  \/ \E v \in Volumes : handleVolumeChange(v)
  \/ \E pct \in {0, 1} : handleProgressClick(pct)
  \/ handleConfirm
  \/ ScriptLoaded
  \/ \E m \in 1..MaxMounts : InitPlayerResume(m)
  \/ \E v \in VideoIds : IdentityChange(v)
  \/ TrimmerUnmount
  \/ TrimmerMount
  \/ \E p \in 1..MaxMounts : PlayerReady(p)
  \/ \E p \in 1..MaxMounts, data \in PlayerStates : PlayerStateChange(p, data)
  \/ \E t \in 1..MaxTimers : Tick(t)
  \/ \E p \in 1..MaxMounts : PlayerAdvance(p)
  \/ \E kind \in {"upload", "metadata"} : handleSubmit(kind)
  \/ \E ok \in BOOLEAN : handleFileUpload(ok)
  \/ \E ok \in BOOLEAN : handleUrlSubmit(ok)
  \/ handleTrimConfirm
  \/ \E ok \in BOOLEAN : handleTrimConfirmSettled(ok)
  \/ handleTrimCancel
  \/ handleProcessAnother
  \/ handleCaptionSave
  \/ \E ok \in BOOLEAN : handleCaptionSaveSettled(ok)
  \/ \E st \in JobStatus : StatusMessage(st)

Spec == Init /\ [][Next]_vars

(* The trim bounds alone: pointer, keyboard and button input of the        *)
(* timeline and of the trim controls, while the player stays unloaded.     *)
InitTrim == Init /\ srcW = 1920

NextTrim ==
  \/ \E type \in Handles : handleMouseDown(type)
  \/ \E clientX \in TrackXs : handleMouseMove(clientX)
  \/ handleMouseUp
  \/ \E text \in EntryTexts : StartInputChange(text)
  \/ \E text \in EntryTexts : EndInputChange(text)
  \/ ResetStart
  \/ ResetEnd

SpecTrim == InitTrim /\ [][NextTrim]_vars

(* The two drag state machines: the handles of the timeline and the crop   *)
(* box, for a video of the shortest duration.                              *)
InitDrag == Init /\ duration = MinGap

NextDrag ==
  \/ \E type \in Handles : handleMouseDown(type)
  \/ \E clientX \in TrackXs : handleMouseMove(clientX)
  \/ \E ratio \in ASPECT_RATIOS : SelectAspectRatio(ratio)
  \/ \E x \in PointerCoords, y \in PointerCoords : handleCropDragStart(x, y)
  \/ \E x \in PointerCoords, y \in PointerCoords, sx \in DisplayScales, sy \in DisplayScales :
        handleCropMouseMove(x, y, sx, sy)
  \/ handleMouseUp

SpecDrag == InitDrag /\ [][NextDrag]_vars

(* The life cycle of the embedded backend: one YouTube video of the        *)
(* shortest duration, the bounds left at [0, duration]; hook instances are *)
(* mounted and unmounted, the video identity changes, the player plays.    *)
InitYT == Init /\ isYouTube /\ duration = MinGap /\ srcW = 1920

NextYT ==
  \/ handleTogglePlay
  \/ ScriptLoaded
  \/ \E m \in 1..MaxMounts : InitPlayerResume(m)
  \/ \E v \in VideoIds : IdentityChange(v)
  \/ TrimmerUnmount
  \/ TrimmerMount
  \/ \E p \in 1..MaxMounts : PlayerReady(p)
  \/ \E p \in 1..MaxMounts, data \in PlayerStates : PlayerStateChange(p, data)
  \/ \E t \in 1..MaxTimers : Tick(t)
  \/ \E p \in 1..MaxMounts : PlayerAdvance(p)

SpecYT == InitYT /\ [][NextYT]_vars

(* Every operation of the controller, the sound controls included, on one  *)
(* instance of the hook.                                                   *)
NextOps ==
  \/ handleTogglePlay
  \/ \E clientX \in TrackXs : handleTrackClick(clientX)
  \/ handleToggleMute
  \/ \E v \in Volumes : handleVolumeChange(v)
  \/ ScriptLoaded
  \/ \E m \in 1..MaxMounts : InitPlayerResume(m)
  \/ \E v \in VideoIds : IdentityChange(v)
  \/ \E p \in 1..MaxMounts : PlayerReady(p)
  \/ \E p \in 1..MaxMounts, data \in PlayerStates : PlayerStateChange(p, data)
  \/ \E t \in 1..MaxTimers : Tick(t)
  \/ \E p \in 1..MaxMounts : PlayerAdvance(p)

SpecOps == InitYT /\ [][NextOps]_vars

(* Seeks on both backends while the bounds move: clicks on the track and  *)
(* on the progress bar, drags of the three handles, typed bounds; the      *)
(* players are loaded but never play.                                      *)
InitSeek == Init /\ duration = 2 * MinGap /\ srcW = 1920

NextSeek ==
  \/ \E type \in Handles : handleMouseDown(type)
  \/ \E clientX \in TrackXs : handleMouseMove(clientX)
  \/ handleMouseUp
  \/ \E clientX \in TrackXs : handleMouseUpOverTrack(clientX)
  \/ \E clientX \in TrackXs : handleTrackClick(clientX)
  \/ \E pct \in {0, 1} : handleProgressClick(pct)
  \/ \E text \in EntryTexts : StartInputChange(text)
  \/ \E text \in EntryTexts : EndInputChange(text)
  \/ \E ev \in {"timeupdate", "seeked"} : VideoEvent(ev)
  \/ ScriptLoaded
  \/ \E m \in 1..MaxMounts : InitPlayerResume(m)
  \/ \E p \in 1..MaxMounts : PlayerReady(p)

SpecSeek == InitSeek /\ [][NextSeek]_vars

(* The bounds move while a player is alive and plays: typed start and end *)
(* times on both backends, with the poll timer and the media events.       *)
InitLive == Init /\ duration = 3 * HalfSec /\ srcW = 1920

\* the times of the half-second grid, typed as a number of seconds
LiveEntries == {t * HalfSec : t \in 0..3}

NextLive ==
  \/ \E t \in LiveEntries : StartInputChange(<<NumSeg(t)>>)
  \/ \E t \in LiveEntries : EndInputChange(<<NumSeg(t)>>)
  \/ handleTogglePlay
  \/ \E ev \in {"timeupdate", "play", "seeked", "pause"} : VideoEvent(ev)
  \/ VideoAdvance
  \/ ScriptLoaded
  \/ \E m \in 1..MaxMounts : InitPlayerResume(m)
  \/ \E p \in 1..MaxMounts : PlayerReady(p)
  \/ \E p \in 1..MaxMounts, data \in {"PLAYING", "PAUSED"} : PlayerStateChange(p, data)
  \/ \E t \in 1..MaxTimers : Tick(t)
  \/ \E p \in 1..MaxMounts : PlayerAdvance(p)

SpecLive == InitLive /\ [][NextLive]_vars

(* The crop geometry as a function: every value of the AspectRatio type,   *)
(* the unknown one included, applied to the sources of SourceDims and to   *)
(* every source of up to MaxDim by MaxDim pixels.                          *)
CropInputs == SourceDims \cup ((1..MaxDim) \X (1..MaxDim))

InitCrop ==
  /\ HostInit
  /\ isYouTube
  /\ duration = MinGap
  /\ \E d \in CropInputs : srcW = d[1] /\ srcH = d[2]

NextCrop == \E ratio \in AspectRatios : SelectAspectRatio(ratio)

SpecCrop == InitCrop /\ [][NextCrop]_vars

(* The crop box alone: ratio selections and drags of the box by pointer    *)
(* deltas below and above its distance from the edges of the source.       *)
InitTranslate == Init /\ isYouTube /\ duration = MinGap

CropPointerCoords == {0, 400}

NextTranslate ==
  \/ \E ratio \in ASPECT_RATIOS : SelectAspectRatio(ratio)
  \/ \E x \in CropPointerCoords, y \in CropPointerCoords : handleCropDragStart(x, y)
  \/ \E x \in CropPointerCoords, y \in CropPointerCoords, sx \in DisplayScales, sy \in DisplayScales :
        handleCropMouseMove(x, y, sx, sy)
  \/ handleMouseUp

SpecTranslate == InitTranslate /\ [][NextTranslate]_vars

(* The time codec as a function: the start field of an uploaded video of   *)
(* ten hours takes the texts of CodecTexts.                                *)
InitCodec ==
  /\ duration = CodecDuration
  /\ HostState
  /\ ~isYouTube
  /\ srcW = 1920
  /\ srcH = 1080

NextCodec ==
  \/ \E text \in CodecTexts : StartInputChange(text)
  \/ EndInputChange(<<NumSeg(9 * MsPerSec), NumSeg(0), NumSeg(0)>>)

SpecCodec == InitCodec /\ [][NextCodec]_vars

(* The embedded backend whose script never loads: the onload callback of   *)
(* the script is never called, while the operations of the controller are  *)
(* invoked, the video identity changes and trimmers come and go.           *)
InitNoLoad == Init /\ isYouTube /\ srcW = 1920

NextNoLoad ==
  \/ handleTogglePlay
  \/ \E clientX \in TrackXs : handleTrackClick(clientX)
  \/ handleToggleMute
  \/ \E v \in Volumes : handleVolumeChange(v)
  \/ \E v \in VideoIds : IdentityChange(v)
  \/ TrimmerUnmount
  \/ TrimmerMount

SpecNoLoad == InitNoLoad /\ [][NextNoLoad]_vars

(* The hand-over of the settings: the bounds are typed, a ratio is         *)
(* selected, the position is set by a click on the track, and the Continue *)
(* button is pressed, on a video of one and a half seconds.                *)
InitConfirm == Init /\ duration = 3 * HalfSec

NextConfirm ==
  \/ \E t \in LiveEntries : StartInputChange(<<NumSeg(t)>>)
  \/ \E t \in LiveEntries : EndInputChange(<<NumSeg(t)>>)
  \/ \E ratio \in {"original", "1:1", "9:16"} : SelectAspectRatio(ratio)
  \/ \E clientX \in {1, TrackWidth} : handleTrackClick(clientX)
  \/ handleConfirm
  \/ TrimmerUnmount

SpecConfirm == InitConfirm /\ [][NextConfirm]_vars

(* Clicks on the track between the gestures of the timeline handles and    *)
(* of the crop box, with typed bounds, on a video of two seconds.          *)
InitClick == Init /\ duration = 2 * MinGap /\ srcW = 1920

NextClick ==
  \/ \E type \in Handles : handleMouseDown(type)
  \/ handleMouseUp
  \/ \E clientX \in TrackXs : handleTrackClick(clientX)
  \/ \E t \in LiveEntries : StartInputChange(<<NumSeg(t)>>)
  \/ \E t \in LiveEntries : EndInputChange(<<NumSeg(t)>>)
  \/ \E ratio \in {"original", "1:1"} : SelectAspectRatio(ratio)
  \/ handleCropDragStart(0, 0)

SpecClick == InitClick /\ [][NextClick]_vars

(* The time observations of both backends while the player plays over the *)
(* bounds of the mount, on a video of one and a half seconds.              *)
NextObserve ==
  \/ handleTogglePlay
  \/ \E ev \in {"timeupdate", "play", "seeked", "pause"} : VideoEvent(ev)
  \/ VideoAdvance
  \/ ScriptLoaded
  \/ \E m \in 1..MaxMounts : InitPlayerResume(m)
  \/ \E p \in 1..MaxMounts : PlayerReady(p)
  \/ \E p \in 1..MaxMounts, data \in {"PLAYING", "PAUSED"} : PlayerStateChange(p, data)
  \/ \E t \in 1..MaxTimers : Tick(t)
  \/ \E p \in 1..MaxMounts : PlayerAdvance(p)

SpecObserve == InitLive /\ [][NextObserve]_vars

(* The page around the trimmer: submissions, the trimmer's two exits, the  *)
(* status messages of the job and the buttons of the result screens.       *)
InitApp == Init /\ duration = MinGap /\ srcW = 1920

NextApp ==
  \/ \E kind \in {"upload", "metadata"} : handleSubmit(kind)
  \/ \E ok \in BOOLEAN : handleFileUpload(ok)
  \/ \E ok \in BOOLEAN : handleUrlSubmit(ok)
  \/ handleTrimConfirm
  \/ \E ok \in BOOLEAN : handleTrimConfirmSettled(ok)
  \/ handleTrimCancel
  \/ handleProcessAnother
  \/ handleCaptionSave
  \/ \E ok \in BOOLEAN : handleCaptionSaveSettled(ok)
  \/ \E st \in JobStatus : StatusMessage(st)
  \/ ScriptLoaded
  \/ \E m \in 1..MaxMounts : InitPlayerResume(m)

SpecApp == InitApp /\ [][NextApp]_vars

(* Playback inside the trim bounds, on both backends, for one mount of the *)
(* trimmer and a video of two seconds; the end bound stays at the duration. *)
InitLoop == Init /\ duration = 2 * MinGap /\ srcW = 1920

NextLoop ==
  \/ \E clientX \in TrackXs : handleTrackClick(clientX)
  \/ \E text \in EntryTexts : StartInputChange(text)
  \/ handleTogglePlay
  \/ \E ev \in {"timeupdate", "play", "seeked", "pause"} : VideoEvent(ev)
  \/ VideoAdvance
  \/ ScriptLoaded
  \/ \E m \in 1..MaxMounts : InitPlayerResume(m)
  \/ \E p \in 1..MaxMounts : PlayerReady(p)
  \/ \E p \in 1..MaxMounts, data \in PlayerStates : PlayerStateChange(p, data)
  \/ \E t \in 1..MaxTimers : Tick(t)
  \/ \E p \in 1..MaxMounts : PlayerAdvance(p)

SpecLoop == InitLoop /\ [][NextLoop]_vars

(* ============================== properties ============================= *)

(* C1: after any sequence of trim-bound mutations (handle drags, manual    *)
(* time entries, the two reset buttons) the bounds satisfy 0 <= start and  *)
(* start + 1 s <= end <= duration.                                         *)
C1_BoundsInvariant ==
  trimmerMounted =>
    /\ 0 <= startTime
    /\ startTime + MinGap <= endTime
    /\ endTime <= duration

(* C2: each crossing of time >= end produces one pause followed by one     *)
(* seek to start, and no further pause and seek to start is issued by the  *)
(* loop rule until an explicit play(): between two play() calls the rule   *)
(* fires at most once.                                                     *)
C2_OncePerCrossing == loopFires <= 1

(* C3: the timeline has no direct Dragging-to-Dragging transition: while a *)
(* handle is dragged, the drag state stays at that handle or returns to    *)
(* Idle.                                                                   *)
C3_NoDragToDrag == [][dragging # "null" => dragging' \in {dragging, "null"}]_vars

(* C4: the timeline drag state and the crop-box drag state are never both  *)
(* active.                                                                 *)
C4_SingleSession == ~(dragging # "null" /\ isDraggingCrop)

(* C5: a teardown of the embedded-backend controller (unmount or change of *)
(* the video identity) leaves no player instance and no poll timer alive.  *)
Teardown == (trimmerMounted /\ ~trimmerMounted') \/ videoId' # videoId
C5_TeardownClean == [][Teardown => (DOMAIN timers' = {} /\ DOMAIN players' = {})]_vars

(* C6: a creation request whose mount was torn down while it awaited the   *)
(* script load installs no player: every player instance, and the one      *)
(* playerRef holds, was created by the mount that is still live.           *)
C6_CancelledInstallsNothing ==
  /\ \A p \in DOMAIN players : HandlerLive(p)
  /\ playerRef # 0 => playerRef \in DOMAIN players

C6_CancelledResumed ==
  \E m \in DOMAIN mounts :
    /\ ~mounts[m].mounted
    /\ mounts[m].pc = "resumed"
    /\ \A p \in DOMAIN players : players[p].mount # m

(* C7: the script load of the embedded backend is initiated at most once,  *)
(* for any number of hook instances and creation requests.                 *)
C7_SingleScriptLoad == scriptLoads <= 1

C7_RequestsShareLoad ==
  /\ scriptLoads = 1
  /\ Cardinality({m \in DOMAIN mounts : mounts[m].pc = "awaiting"}) >= 2

(* C8: isReady is true only if the player instance currently installed has *)
(* signalled readiness.                                                    *)
C8_ReadyOnlyAfterSignal == (isReady /\ playerRef # 0) => players[playerRef].ready

(* C9: an operation of the controller (togglePlay with play and pause,     *)
(* seek, setVolume, toggleMute) invoked before the current player has      *)
(* signalled readiness issues no command to a player and leaves isPlaying  *)
(* and the currentTime of the controller unchanged.                        *)
PlayerSignalledReady == playerRef # 0 /\ players[playerRef].ready
Operation ==
  \/ handleTogglePlay
  \/ handleToggleMute
  \/ \E v \in Volumes : handleVolumeChange(v)
  \/ \E clientX \in TrackXs : handleTrackClick(clientX)
C9_NoOpBeforeReady ==
  [][(Operation /\ ~PlayerSignalledReady) =>
       (players' = players /\ isPlaying' = isPlaying /\ hookCurrentTime' = hookCurrentTime)]_vars

(* C10: at most one player instance is attached to the mount point of a    *)
(* controller at any time.                                                 *)
C10_OnePlayerPerMountPoint ==
  Cardinality({p \in DOMAIN players : players[p].container = "here"}) <= 1

C10_PlayerReplaced ==
  /\ playerRef # 0
  /\ isReady
  /\ ~players[playerRef].ready

(* C11: when play is requested and the position is outside [start, end)    *)
(* the player is sent to start as playback resumes; when the position is   *)
(* inside [start, end) the position is left alone and no seek is issued.   *)
(* On the embedded backend the request is play() of the hook, on the       *)
(* native one the play branch of handleTogglePlay and the play listener.   *)
PlayRequestYT == isYouTube /\ handleTogglePlay /\ ~isPlaying /\ Usable
PlayRequestNative == ~isYouTube /\ ((handleTogglePlay /\ video.paused) \/ VideoEvent("play"))
C11_PlaySeeksIffOutside ==
  [][/\ PlayRequestYT =>
          LET current == players[playerRef].time
              outside == current < startTime \/ current >= endTime
          IN /\ players'[playerRef].playing
             /\ players'[playerRef].time = IF outside THEN startTime ELSE current
     /\ PlayRequestNative =>
          LET current == video.currentTime
              outside == current < startTime \/ current >= endTime
          IN /\ video'.currentTime = IF outside THEN startTime ELSE current
             /\ outside => SeekEvents \subseteq pendingEvents'
             /\ ~outside => (pendingEvents' \cap SeekEvents) \subseteq pendingEvents]_vars

\* the native player was sent from the end bound to start by a play request
C11_PlayedFromOutside ==
  /\ ~isYouTube
  /\ ~video.paused
  /\ "play" \in pendingEvents
  /\ "seeked" \in pendingEvents
  /\ video.currentTime = startTime
  /\ currentTime >= endTime

(* C12: on both backends the time applied to the player by a seek (a click *)
(* on the track or on the progress bar, a move of the dragged playhead,    *)
(* the click that ends a drag over the track)                              *)
(* lies in [start, end] for the bounds current at the moment of the seek,  *)
(* for every requested position.                                           *)
SeekRequest ==
  \/ \E clientX \in TrackXs : handleTrackClick(clientX)
  \/ \E pct \in {0, 1} : handleProgressClick(pct)
  \/ dragging = "playhead" /\ \E clientX \in TrackXs : handleMouseMove(clientX)
  \/ \E clientX \in TrackXs : handleMouseUpOverTrack(clientX)
C12_SeekWithinBounds ==
  [][SeekRequest =>
       /\ (isYouTube /\ Usable) =>
            (startTime <= players'[playerRef].time /\ players'[playerRef].time <= endTime)
       /\ ~isYouTube => (startTime <= video'.currentTime /\ video'.currentTime <= endTime)]_vars

\* the dragged playhead holds the native player at an end bound that is
\* not the end of the video
C12_SeekClampedToBound ==
  /\ ~isYouTube
  /\ dragging = "playhead"
  /\ 0 < startTime
  /\ endTime < duration
  /\ "seeked" \in pendingEvents
  /\ video.currentTime = endTime
  /\ currentTime = endTime

(* C13: the bounds are read live. After start or end has changed while a   *)
(* player is alive, the next observation of the time (a tick of the poll   *)
(* timer, a timeupdate event) and the next play() compare the position     *)
(* with the bounds of that moment, never with those the player or the      *)
(* handler was created with.                                               *)
PollObserves == \E t \in 1..MaxTimers : Tick(t) /\ timers[t].ctrlAlive /\ playerRef # 0
EventObserves == ~isYouTube /\ VideoEvent("timeupdate")
C13_BoundsReadLive ==
  [][/\ PollObserves =>
          IF players[playerRef].time >= endTime
          THEN players'[playerRef].time = startTime /\ ~players'[playerRef].playing
          ELSE players' = players
     /\ EventObserves =>
          IF video.currentTime >= endTime
          THEN video'.paused /\ video'.currentTime = startTime
          ELSE IF video.currentTime < startTime /\ ~video.paused
          THEN video'.currentTime = startTime
          ELSE video' = video
     /\ PlayRequestYT =>
          players'[playerRef].time =
            IF players[playerRef].time < startTime \/ players[playerRef].time >= endTime
            THEN startTime ELSE players[playerRef].time]_vars

\* the native element, alive since the mount with the bounds [0, duration],
\* was stopped by a timeupdate at an end bound below the duration and sent
\* to a start bound above zero
C13_ObservedAtMovedBounds ==
  /\ ~isYouTube
  /\ 0 < startTime
  /\ endTime < duration
  /\ loopFires >= 1
  /\ currentTime = endTime
  /\ video.paused
  /\ video.currentTime = startTime

(* C14: a pointer-up observed anywhere while a drag session is alive       *)
(* (start, end, playhead or crop box) destroys the session and returns to  *)
(* Idle, whatever changed during the drag: in every reachable state the    *)
(* state a pointer-up leads to has no drag session.                        *)
C14_PointerUpEndsSession ==
  /\ afterMouseUp.dragging = "null"
  /\ ~afterMouseUp.isDraggingCrop

(* C15: the global pointer-move and pointer-up listeners are attached if   *)
(* and only if a drag session is active, for the timeline and for the crop *)
(* box.                                                                    *)
C15_ListenersIffSession ==
  /\ TimelineListening <=> (dragging # "null")
  /\ CropListening <=> isDraggingCrop

(* C16: a pointer-down on a handle of the timeline (start, end, playhead)  *)
(* followed by a pointer-up is a drag start and a drag end only: the step  *)
(* that ends the drag session issues no seek, it leaves the position of    *)
(* the host and of both players as they are.                               *)
C16_HandleGestureNeverSeeks ==
  [][(dragging # "null" /\ dragging' = "null" /\ trimmerMounted') =>
       (currentTime' = currentTime /\ video' = video /\ players' = players)]_vars

(* C17: the drag setters clamp. From bounds that satisfy 0 <= start and    *)
(* start + 1 s <= end <= duration, a pointer-move at raw time t while the  *)
(* start handle is dragged sets start to clamp(t, 0, end - 1 s) and leaves *)
(* end unchanged; while the end handle is dragged it sets end to           *)
(* clamp(t, start + 1 s, duration) and leaves start unchanged.             *)
clamp(t, lo, hi) == IF t < lo THEN lo ELSE IF t > hi THEN hi ELSE t
ValidBounds == 0 <= startTime /\ startTime + MinGap <= endTime /\ endTime <= duration
C17_DragSettersClamp ==
  [][\A clientX \in TrackXs :
       (ValidBounds /\ handleMouseMove(clientX)) =>
          /\ dragging = "start" =>
               /\ startTime' = clamp(getTimeFromPosition(clientX), 0, endTime - MinGap)
               /\ endTime' = endTime
          /\ dragging = "end" =>
               /\ endTime' = clamp(getTimeFromPosition(clientX), startTime + MinGap, duration)
               /\ startTime' = startTime]_vars

\* the dragged start handle is held one second before an end bound that
\* the end handle had been dragged to
C17_StartHeldBeforeEnd ==
  /\ dragging = "start"
  /\ endTime < duration
  /\ 0 < startTime
  /\ startTime = endTime - MinGap

(* C18: in every reachable state the crop rectangle is null or lies inside *)
(* the source: 0 <= x, x + width <= sourceWidth, 0 <= y and                *)
(* y + height <= sourceHeight, after any sequence of aspect-ratio          *)
(* selections and moves of the dragged crop box.                           *)
C18_CropWithinSource ==
  cropConfig # Null =>
    /\ 0 <= cropConfig.x
    /\ cropConfig.x + cropConfig.width <= cropConfig.sourceWidth
    /\ 0 <= cropConfig.y
    /\ cropConfig.y + cropConfig.height <= cropConfig.sourceHeight
    /\ cropConfig.sourceWidth = srcW * SubPx
    /\ cropConfig.sourceHeight = srcH * SubPx

\* the crop box was dragged against the right edge of the source
C18_DraggedToEdge ==
  /\ cropConfig # Null
  /\ isDraggingCrop
  /\ dragStart # Null
  /\ cropConfig.x > dragStart.cropX
  /\ cropConfig.x + cropConfig.width = cropConfig.sourceWidth

(* C19: calculateCropForRatio returns null if and only if the ratio is     *)
(* 'original': for every source, 'original' yields null and every other    *)
(* value of the ratio, the unknown value 'custom' included, yields a       *)
(* rectangle; for the unknown value the rectangle is the full frame of the *)
(* source at x = 0, y = 0.                                                 *)
FullFrame ==
  [x |-> 0, y |-> 0, width |-> srcW * SubPx, height |-> srcH * SubPx,
   sourceWidth |-> srcW * SubPx, sourceHeight |-> srcH * SubPx]
C19_NullIffOriginal ==
  /\ cropConfig = Null <=> aspectRatio = "original"
  /\ aspectRatio \notin ASPECT_RATIOS => cropConfig = FullFrame

\* the unknown ratio was applied to a source that is not a square
C19_UnknownRatioApplied ==
  /\ aspectRatio = "custom"
  /\ cropConfig # Null
  /\ srcW # srcH

(* C20: for a named ratio rw:rh of 9:16, 16:9, 1:1, 4:5 and a source of    *)
(* positive dimensions, if rw/rh > sourceWidth/sourceHeight the crop has   *)
(* the width of the source and the height sourceWidth*rh/rw, otherwise it  *)
(* has the height of the source and the width sourceHeight*rw/rh; it is    *)
(* centred. ('16:9', 1080, 1920) gives width 1080, height 607.5, x 0 and   *)
(* y 656.25.                                                               *)
NamedRatio ==
  CASE aspectRatio = "9:16" -> <<9, 16>>
    [] aspectRatio = "16:9" -> <<16, 9>>
    [] aspectRatio = "1:1" -> <<1, 1>>
    [] aspectRatio = "4:5" -> <<4, 5>>
C20_FitAndCentre ==
  aspectRatio \in {"9:16", "16:9", "1:1", "4:5"} =>
    LET rw == NamedRatio[1]
        rh == NamedRatio[2]
    IN /\ cropConfig # Null
       /\ IF rw * srcH > rh * srcW
          THEN /\ cropConfig.width = srcW * SubPx
               /\ cropConfig.height * rw = srcW * SubPx * rh
          ELSE /\ cropConfig.height = srcH * SubPx
               /\ cropConfig.width * rh = srcH * SubPx * rw
       /\ 2 * cropConfig.x = srcW * SubPx - cropConfig.width
       /\ 2 * cropConfig.y = srcH * SubPx - cropConfig.height
       /\ (aspectRatio = "16:9" /\ srcW = 1080 /\ srcH = 1920) =>
            /\ cropConfig.width = 1080 * SubPx
            /\ 2 * cropConfig.height = 1215 * SubPx
            /\ cropConfig.x = 0
            /\ 4 * cropConfig.y = 2625 * SubPx

\* a width-limited fit whose height is not a whole number of pixels
C20_WidthLimitedFit ==
  /\ aspectRatio = "16:9"
  /\ srcW = 1080
  /\ srcH = 1920
  /\ cropConfig # Null
  /\ cropConfig.width = cropConfig.sourceWidth
  /\ cropConfig.y > 0
  /\ cropConfig.height % SubPx # 0

(* C21: a move of the dragged crop box by the on-screen delta (dx, dy) at  *)
(* the scale (scaleX, scaleY) sets x to clamp(origin.x + dx * scaleX, 0,   *)
(* sourceWidth - width) and y to clamp(origin.y + dy * scaleY, 0,          *)
(* sourceHeight - height), origin being the origin at the start of the     *)
(* drag. For a source of 1920x1080, the crop {860, 440, 200, 200}, the     *)
(* delta (-2000, 0) and the scale 1 this is x = 0 and y = 440.             *)
C21_TranslateClamps ==
  [][\A cx \in CropPointerCoords, cy \in CropPointerCoords, sx \in DisplayScales, sy \in DisplayScales :
       handleCropMouseMove(cx, cy, sx, sy) =>
         LET dx == cx - dragStart.x
             dy == cy - dragStart.y
         IN /\ cropConfig'.x = clamp(dragStart.cropX + dx * sx * SubPx, 0,
                                     cropConfig.sourceWidth - cropConfig.width)
            /\ cropConfig'.y = clamp(dragStart.cropY + dy * sy * SubPx, 0,
                                     cropConfig.sourceHeight - cropConfig.height)
            /\ clampOrigin((1920 - 200) * SubPx, movedOrigin(860 * SubPx, -2000, 1)) = 0
            /\ clampOrigin((1080 - 200) * SubPx, movedOrigin(440 * SubPx, 0, 1)) = 440 * SubPx]_vars

\* the crop box was dragged to the left by more than its distance from the
\* left edge: x is held at 0 and y is the one of the drag start
C21_HeldAtLeftEdge ==
  /\ cropConfig # Null
  /\ isDraggingCrop
  /\ dragStart # Null
  /\ dragStart.cropX > 0
  /\ cropConfig.x = 0
  /\ cropConfig.y = dragStart.cropY

(* C22: a move of the dragged crop box leaves the width, the height, the   *)
(* sourceWidth and the sourceHeight of the crop unchanged, and leaves      *)
(* start, end and the selected aspect ratio unchanged; the size of the     *)
(* crop, and whether there is a crop, changes only in a step that selects  *)
(* another aspect ratio.                                                   *)
CropSize(c) == IF c = Null THEN Null
               ELSE [width |-> c.width, height |-> c.height,
                     sourceWidth |-> c.sourceWidth, sourceHeight |-> c.sourceHeight]
CropDragMove ==
  \E cx \in CropPointerCoords, cy \in CropPointerCoords, sx \in DisplayScales, sy \in DisplayScales :
    handleCropMouseMove(cx, cy, sx, sy)
C22_DragKeepsSize ==
  [][/\ CropDragMove =>
          /\ CropSize(cropConfig') = CropSize(cropConfig)
          /\ UNCHANGED <<startTime, endTime, aspectRatio>>
     /\ CropSize(cropConfig') # CropSize(cropConfig) => aspectRatio' # aspectRatio]_vars

\* the square crop of a landscape source was moved and has the size the
\* selection of the ratio gave it
C22_MovedSameSize ==
  /\ aspectRatio = "1:1"
  /\ cropConfig # Null
  /\ isDraggingCrop
  /\ dragStart # Null
  /\ cropConfig.x # dragStart.cropX
  /\ CropSize(cropConfig) = CropSize(calculateCropForRatio("1:1", srcW, srcH))

(* C23: during a drag a pointer position left or right of the track, or    *)
(* outside the video frame, never ends the session: the time computed from *)
(* the pointer lies in [0, duration], the origin of the dragged crop stays *)
(* inside the source, and the session and its listeners stay as they are.  *)
C23_OutOfRangeKeepsSession ==
  [][/\ \A clientX \in TrackXs :
          handleMouseMove(clientX) =>
            /\ 0 <= getTimeFromPosition(clientX)
            /\ getTimeFromPosition(clientX) <= duration
            /\ dragging' = dragging
            /\ TimelineListening'
     /\ (\E cx \in PointerCoords, cy \in PointerCoords, sx \in DisplayScales, sy \in DisplayScales :
           handleCropMouseMove(cx, cy, sx, sy)) =>
            /\ 0 <= cropConfig'.x
            /\ cropConfig'.x <= cropConfig'.sourceWidth - cropConfig'.width
            /\ 0 <= cropConfig'.y
            /\ cropConfig'.y <= cropConfig'.sourceHeight - cropConfig'.height
            /\ isDraggingCrop'
            /\ dragStart' = dragStart
            /\ CropListening']_vars

\* the playhead was dragged to the right end of the track or past it, and
\* is still held
C23_PlayheadHeldAtEnd ==
  /\ dragging = "playhead"
  /\ ~isDraggingCrop
  /\ 0 < duration
  /\ currentTime = duration

(* C24: the time codec round-trips. For a time t of [0, 36000) s at        *)
(* millisecond granularity, parseTimeInput(formatTimeInput(t)) differs     *)
(* from t by at most 0.001 s and parseTimeInput(formatTime(t)) by at most  *)
(* 1 s, in the form M:SS and in the form H:MM:SS. The times are compared   *)
(* as the doubles the program holds.                                       *)
\* double(k1) - double(k2) > tol / 1000, for times of k1 and k2 ms whose
\* binades are at most ten apart
ExceedsBy(k1, k2, tol) ==
  LET exp == Max(DoubleExp(k1), DoubleExp(k2))
  IN IF k1 - k2 > tol THEN TRUE
     ELSE IF k1 - k2 < tol THEN FALSE
     ELSE 0 > DoubleErr(k1) * Pow2(exp - DoubleExp(k1)) - DoubleErr(k2) * Pow2(exp - DoubleExp(k2))
Within(k1, k2, tol) == ~ExceedsBy(k1, k2, tol) /\ ~ExceedsBy(k2, k1, tol)
C24_RoundTrip ==
  LET fine == parseTimeInput(formatTimeInput(startTime))
      coarse == parseTimeInput(formatTime(startTime))
  IN /\ ~fine.nan
     /\ Within(startTime, fine.v, 1)
     /\ ~coarse.nan
     /\ Within(startTime, coarse.v, MsPerSec)

(* C25: parseTimeInput splits the text on ':'; for any number of segments  *)
(* the rightmost one is the seconds, the one left of it the minutes, the   *)
(* next the hours, an absent or empty segment counts as 0, and the result  *)
(* is hours * 3600 + minutes * 60 + seconds; a segment with a character    *)
(* that is not part of a number makes the result NaN. Seen at the start    *)
(* field: a typed text sets start to that result if it is a number of      *)
(* [0, end), and leaves start alone otherwise.                             *)
SegFromRight(parts, i) == IF i <= Len(parts) THEN parts[Len(parts) + 1 - i] ELSE EmptySeg
SegNumber(seg) == IF seg.kind \in {"num", "empty"} THEN Num(seg.val) ELSE NaN
RightmostSeconds(parts) ==
  IF \E i \in 1..Len(parts) : parts[i].kind \notin {"num", "empty"} THEN NaN
  ELSE Plus(Plus(Times(SegNumber(SegFromRight(parts, 3)), 3600),
                 Times(SegNumber(SegFromRight(parts, 2)), 60)),
            SegNumber(SegFromRight(parts, 1)))
C25_ParseRightmostSeconds ==
  [][\A text \in CodecTexts :
       StartInputChange(text) =>
         LET time == RightmostSeconds(text)
         IN startTime' = IF ~time.nan /\ time.v >= 0 /\ time.v < endTime THEN time.v ELSE startTime]_vars

(* C26: a text typed into the start or the end field whose parse result is *)
(* NaN is rejected: neither start nor end changes, whatever the bounds are *)
(* at that moment, so that no NaN reaches start or end by any sequence of  *)
(* manual entries.                                                         *)
C26_InvalidEntryRejected ==
  [][\A text \in EntryTexts :
       (parseTimeInput(text).nan /\ (StartInputChange(text) \/ EndInputChange(text))) =>
          UNCHANGED <<startTime, endTime>>]_vars

\* both bounds were typed and are away from 0 and from the duration, where
\* a rejected entry is told from a reset
C26_TypedBoundsKept ==
  /\ dragging = "null"
  /\ startTime = HalfSec
  /\ endTime = duration - HalfSec
  /\ startTime < endTime

(* C27: while the script of the embedded backend has not loaded, isReady   *)
(* is false, the load has been initiated once and is not initiated again   *)
(* by a later effect or a later hook instance, no player is installed and  *)
(* no timer runs, and every operation of the controller (togglePlay,       *)
(* seekTo, toggleMute, setVolume) leaves the controller as it is.          *)
C27_LoadFailureIsInert ==
  ~windowYT =>
    /\ ~isReady
    /\ scriptLoads = 1
    /\ apiLoadPromise = "pending"
    /\ playerRef = 0
    /\ players = EmptyMap
    /\ timers = EmptyMap
    /\ ~isPlaying
    /\ hookCurrentTime = 0
    /\ ~Usable
    /\ togglePlay(players) = players
    /\ toggleMute(players) = players
    /\ \A v \in Volumes : setVolume(players, v) = players

\* a later effect waits for the one load while the operations of the
\* controller were invoked: the host has sought and muted
C27_LaterRequestWaits ==
  /\ ~windowYT
  /\ trimmerMounted
  /\ videoId = "b"
  /\ Cardinality({m \in DOMAIN mounts : mounts[m].pc = "awaiting"}) >= 2
  /\ currentTime > 0
  /\ isMuted

C29_PollOnlyWhilePlaying ==
  \A t \in DOMAIN timers :
    /\ trimmerMounted
    /\ isPlaying
    /\ timers[t].ctrlAlive

(* C30: a click on the track background while no drag session is active   *)
(* sets currentTime to clamp(clickedTime, start, end), clickedTime being   *)
(* the fraction of the track at the pointer times the duration, and leaves *)
(* start and end unchanged; a track click while a drag session is active   *)
(* does nothing. The session counted as active at the click is one that    *)
(* the pointer-up of the click gesture has not ended.                      *)
SessionActiveAtClick == afterMouseUp.dragging # "null" \/ afterMouseUp.isDraggingCrop
ClickedTime(clientX) == (Max(0, Min(TrackWidth, clientX)) * duration) \div TrackWidth
C30_TrackClickSeeks ==
  [][\A clientX \in TrackXs :
       handleTrackClick(clientX) =>
         IF SessionActiveAtClick
         THEN UNCHANGED <<currentTime, video, players, startTime, endTime>>
         ELSE /\ currentTime' = clamp(ClickedTime(clientX), startTime, endTime)
              /\ UNCHANGED <<startTime, endTime>>]_vars

\* the part of C30 that holds: the click with no session of either kind
C30_IdleTrackClickSeeks ==
  [][\A clientX \in TrackXs :
       (handleTrackClick(clientX) /\ dragging = "null" /\ ~isDraggingCrop) =>
          /\ currentTime' = clamp(ClickedTime(clientX), startTime, endTime)
          /\ UNCHANGED <<startTime, endTime>>]_vars

(* ---------------------------------------------------------------------- *)
(* C31                                                                    *)
(* ---------------------------------------------------------------------- *)
\* positions of the calls of `op` in a run of an observation
Positions(calls, op) == {i \in 1..Len(calls) : calls[i].op = op}

\* the run publishes the time it read first and, when that time is at or
\* after the end, issues exactly one pause and then exactly one seek to the
\* start; below the end it issues no pause
ReadPublishPauseSeek(calls, time, end, start, pauseOp, seekOp) ==
  /\ calls # <<>>
  /\ calls[1] = Call("setCurrentTime", time)
  /\ \A i \in 1..Len(calls) :
       calls[i].op \in {"setCurrentTime", "onTimeUpdate"} => calls[i].arg = time
  /\ \A i \in Positions(calls, pauseOp) \cup Positions(calls, seekOp),
        j \in Positions(calls, "setCurrentTime") \cup Positions(calls, "onTimeUpdate") : j < i
  /\ IF time >= end
     THEN /\ Cardinality(Positions(calls, pauseOp)) = 1
          /\ Cardinality(Positions(calls, seekOp)) = 1
          /\ \A i \in Positions(calls, pauseOp), j \in Positions(calls, seekOp) :
               i < j /\ calls[j].arg = start
     ELSE Positions(calls, pauseOp) = {}

\* C31: every time observation, a run of the poll callback or of the
\* timeupdate handler, is one step that publishes the time it read, then
\* compares it with the end and, at or after the end, pauses and only then
\* seeks to the start; the step leaves the player with exactly the outcome of
\* those calls, so no other observation runs between the read and the seek.
C31_ObservationOrder ==
  [][ /\ \A t \in DOMAIN timers :
           (Tick(t) /\ timers[t].ctrlAlive /\ playerRef # 0) =>
             LET time == players[playerRef].time
             IN /\ ReadPublishPauseSeek(pollCalls(time), time, boundsRef.endTime,
                                        boundsRef.startTime, "pauseVideo", "seekTo")
                /\ hookCurrentTime' = time
                /\ time >= boundsRef.endTime =>
                     /\ ~players'[playerRef].playing
                     /\ players'[playerRef].time = boundsRef.startTime
      /\ (VideoEvent("timeupdate") /\ ~isYouTube /\ trimmerMounted) =>
           /\ ReadPublishPauseSeek(handleTimeUpdateCalls, video.currentTime, endTime,
                                   startTime, "pause", "seek")
           /\ currentTime' = video.currentTime
           /\ video.currentTime >= endTime =>
                video'.paused /\ video'.currentTime = startTime ]_vars

\* a poll tick has read a time at or after the end, published it and left the
\* embedded player paused at the start
C31_PollPausedThenSought ==
  /\ isYouTube /\ trimmerMounted /\ playerRef # 0
  /\ hookCurrentTime >= endTime
  /\ currentTime = hookCurrentTime
  /\ ~players[playerRef].playing
  /\ players[playerRef].time = startTime
  /\ loopFires >= 1

(* ---------------------------------------------------------------------- *)
(* C32                                                                    *)
(* ---------------------------------------------------------------------- *)
\* C32: while playback is active, an observation that finds the position
\* outside [start, end] (the start was moved above it, or the end below it)
\* leaves the position inside [start, end], on the embedded backend (poll
\* tick) and on the native one (timeupdate).
C32_ObservationReclamps ==
  [][ /\ \A t \in DOMAIN timers :
           (/\ Tick(t) /\ timers[t].ctrlAlive /\ playerRef # 0
            /\ isYouTube /\ trimmerMounted
            /\ players[playerRef].playing) =>
             /\ players'[playerRef].time >= startTime
             /\ players'[playerRef].time <= endTime
      /\ (/\ VideoEvent("timeupdate") /\ ~isYouTube /\ trimmerMounted
          /\ ~video.paused) =>
             /\ video'.currentTime >= startTime
             /\ video'.currentTime <= endTime ]_vars

(* ---------------------------------------------------------------------- *)
(* C33                                                                    *)
(* ---------------------------------------------------------------------- *)
\* the poll timers of the controller that is alive
LivePollTimers == {t \in DOMAIN timers : timers[t].ctrlAlive}

\* C33: in every reachable state the embedded-backend controller has at
\* most one poll timer alive, whatever sequence of state-change
\* notifications the player sent, two playing notifications in a row included.
C33_AtMostOnePollTimer == Cardinality(LivePollTimers) <= 1

(* ---------------------------------------------------------------------- *)
(* C34                                                                    *)
(* ---------------------------------------------------------------------- *)
\* the crop a single move from the anchor of the session to the pointer
\* (cx, cy) at the scale (sx, sy) gives: the anchor origin plus the scaled
\* delta, held inside the source; the origin the crop has now plays no part
DirectMove(cx, cy, sx, sy) ==
  [x |-> clamp(dragStart.cropX + (cx - dragStart.x) * sx * SubPx, 0,
               srcW * SubPx - cropConfig.width),
   y |-> clamp(dragStart.cropY + (cy - dragStart.y) * sy * SubPx, 0,
               srcH * SubPx - cropConfig.height),
   width |-> cropConfig.width, height |-> cropConfig.height,
   sourceWidth |-> cropConfig.sourceWidth, sourceHeight |-> cropConfig.sourceHeight]

\* the anchor origin fits the crop of the selected ratio, as it does as long
\* as the ratio is the one the session started with
AnchorFitsCrop ==
  /\ dragStart.cropX <= srcW * SubPx - cropConfig.width
  /\ dragStart.cropY <= srcH * SubPx - cropConfig.height

\* C34: within a crop drag session every pointer move, whatever moves came
\* before it and wherever they left the crop, gives the crop of a single
\* move from the anchor to that pointer position; with the ratio of the
\* session unchanged, a move back to the anchor pointer gives the anchor
\* origin again.
C34_PathIndependent ==
  [][\A cx \in CropPointerCoords, cy \in CropPointerCoords, sx \in DisplayScales, sy \in DisplayScales :
       handleCropMouseMove(cx, cy, sx, sy) =>
         /\ cropConfig' = DirectMove(cx, cy, sx, sy)
         /\ (cx = dragStart.x /\ cy = dragStart.y /\ AnchorFitsCrop) =>
              (cropConfig'.x = dragStart.cropX /\ cropConfig'.y = dragStart.cropY)]_vars

\* a session whose earlier move left the crop away from its anchor and off
\* the edges of the source, so that the next move starts from a moved crop
C34_MovedOffAnchor ==
  /\ CropListening
  /\ aspectRatio = "1:1"
  /\ cropConfig.x # dragStart.cropX
  /\ cropConfig.x > 0
  /\ cropConfig.x + cropConfig.width < cropConfig.sourceWidth
  /\ cropConfig.width = cropConfig.height

(* ---------------------------------------------------------------------- *)
(* C35                                                                    *)
(* ---------------------------------------------------------------------- *)
\* the crop and the selected ratio agree: no crop exactly for 'original',
\* otherwise a crop of the size calculateCropForRatio gives for the ratio
CropMatchesRatio(crop, ratio) ==
  /\ crop = Null <=> ratio = "original"
  /\ crop # Null => CropSize(crop) = CropSize(calculateCropForRatio(ratio, srcW, srcH))

\* C35: after every ratio selection (its effect included), crop drag move
\* and pointer-up, the crop is null exactly when the selected ratio is
\* 'original' and otherwise has the width and height calculateCropForRatio
\* gives for the selected ratio and the source, also when the ratio changes
\* during a crop drag; a step that selects a different ratio leaves the crop
\* at the centred position of that ratio.
C35_CropFollowsRatio ==
  [][/\ CropMatchesRatio(cropConfig, aspectRatio)
     /\ CropMatchesRatio(cropConfig', aspectRatio')
     /\ aspectRatio' # aspectRatio =>
          cropConfig' = calculateCropForRatio(aspectRatio', srcW, srcH)]_vars

\* the ratio was changed from 1:1 to 9:16 during a crop drag and the crop
\* was moved afterwards: the anchor is the one of the square crop, the crop
\* is off the centre of the 9:16 one
C35_RatioChangedInDrag ==
  /\ CropListening
  /\ aspectRatio = "9:16"
  /\ srcW = 1920
  /\ dragStart.cropX = calculateCropForRatio("1:1", srcW, srcH).x
  /\ dragStart.cropX # calculateCropForRatio("9:16", srcW, srcH).x
  /\ cropConfig.x # calculateCropForRatio("9:16", srcW, srcH).x

(* ---------------------------------------------------------------------- *)
(* C36                                                                    *)
(* ---------------------------------------------------------------------- *)
\* C36: on the embedded backend the mute indicator of the host, isMuted,
\* equals the mute state of the player the controller holds, after any
\* sequence of mute toggles and volume changes, those issued before the
\* player is ready and a volume of 0 followed by a toggle included.
C36_MuteIndicatorMatches ==
  (isYouTube /\ trimmerMounted /\ playerRef # 0 /\ playerRef \in DOMAIN players) =>
    isMuted = players[playerRef].muted

(* ---------------------------------------------------------------------- *)
(* C37                                                                    *)
(* ---------------------------------------------------------------------- *)
\* C37: for an uploaded video the trimmer never triggers the load of the
\* script of the embedded backend and never creates an embedded player; the
\* native element is its only backend.
C37_UploadHasNoEmbeddedBackend ==
  ~isYouTube =>
    /\ scriptLoads = 0
    /\ apiLoadPromise = "null"
    /\ DOMAIN players = {}

(* ---------------------------------------------------------------------- *)
(* C38                                                                    *)
(* ---------------------------------------------------------------------- *)
\* a submission of a file or of a URL that succeeded
SubmissionSucceeds == handleFileUpload(TRUE) \/ handleUrlSubmit(TRUE)

\* C38: Process Another clears the job id and leaves the view 'upload'; as
\* long as no new status arrives, the view 'upload' is left only by a
\* submission that succeeded, which leaves the view 'trimming', and the view
\* 'trimming' is left only by the confirm or the cancel of the trimmer. The
\* status kept from the finished job moves the view in none of these steps.
C38_RetainedStatusKeepsView ==
  [][/\ handleProcessAnother => (jobId' = 0 /\ viewMode' = "upload")
     /\ SubmissionSucceeds => viewMode' = "trimming"
     /\ (status' = status /\ viewMode = "upload" /\ viewMode' # "upload") => SubmissionSucceeds
     /\ (status' = status /\ viewMode = "trimming" /\ viewMode' # "trimming") =>
          (handleTrimConfirm \/ handleTrimCancel)]_vars

====
